---- MODULE Spec2Model ----
(***************************************************************************)
(* Team / Project / Task authorization of the TaskBuddy API.               *)
(*                                                                         *)
(* The database is three collections (teams, projects, tasks) plus, per    *)
(* user, the denormalised teams list and the active team.  A request is    *)
(* one action: the route's middleware chain followed by the controller.    *)
(* resp records the outcome of the last request.  Where requests overlap,  *)
(* inflight holds the requests that have read the database and not yet     *)
(* written all they are going to write.                                    *)
(***************************************************************************)
EXTENDS Integers, Sequences, FiniteSets, TLC

VARIABLES teams, projects, tasks, userTeams, activeTeam, resp, inflight

vars == <<teams, projects, tasks, userTeams, activeTeam, resp, inflight>>

(***************************************************************************)
(* Identities.  null stands for JavaScript null / undefined: an unset      *)
(* reference, a reference whose target is gone, or a missing document.     *)
(***************************************************************************)
NULL == "null"

Users == {"u1", "u2", "u3"}

TeamIds == {"t1"}

ProjectIds == {"p1"}

TaskIds == {"k1"}

\* User.role of the registered users (Identity is external and never changes it).
userRole == [u \in Users |-> CASE u = "u1" -> "admin"
                               [] u = "u2" -> "team_manager"
                               [] OTHER    -> "employee"]

TeamRoles == {"owner", "manager", "member"}

ProjectRoles == {"lead", "developer", "designer", "tester", "client"}

(***************************************************************************)
(* Array helpers: members.some / members.find / members.filter.            *)
(***************************************************************************)
Range(s) == {s[i] : i \in DOMAIN s}

\* members.some(m => m.user.toString() === userId.toString())
HasRecord(members, userId) ==
  \E i \in DOMAIN members : members[i].user = userId

\* Index of the record members.find(...) returns: the first one of userId.
FirstIndex(members, userId) ==
  CHOOSE i \in DOMAIN members :
    /\ members[i].user = userId
    /\ \A j \in DOMAIN members : members[j].user = userId => i <= j

\* The filter with its test inverted: it keeps the records of userId only.
RECURSIVE FilterOnly(_, _)
FilterOnly(members, userId) ==
  IF members = <<>> THEN <<>>
  ELSE IF Head(members).user = userId
       THEN <<Head(members)>> \o FilterOnly(Tail(members), userId)
       ELSE FilterOnly(Tail(members), userId)

\* members.filter(m => m.user.toString() !== userId.toString())
RECURSIVE FilterOut(_, _)
FilterOut(members, userId) ==
  IF members = <<>> THEN <<>>
  ELSE IF Head(members).user = userId
       THEN FilterOut(Tail(members), userId)
       ELSE <<Head(members)>> \o FilterOut(Tail(members), userId)

(***************************************************************************)
(* models/Team.js                                                          *)
(***************************************************************************)
\* The permission bundle the switch statements store for a team role.
TeamPermissions(role) ==
  IF role \in {"owner", "manager"}
  THEN [canInviteMembers |-> TRUE, canManageProjects |-> TRUE,
        canViewAllTasks |-> TRUE, canManageTasks |-> TRUE]
  ELSE [canInviteMembers |-> FALSE, canManageProjects |-> FALSE,
        canViewAllTasks |-> TRUE, canManageTasks |-> FALSE]

TeamMember(u, r) == [user |-> u, role |-> r, permissions |-> TeamPermissions(r)]

\* isMember answering false whoever is asked about.
TeamIsMemberNever(team, userId) == FALSE

TeamIsMember(team, userId) == HasRecord(team.members, userId)

TeamGetMemberRole(team, userId) ==
  IF HasRecord(team.members, userId)
  THEN team.members[FirstIndex(team.members, userId)].role
  ELSE NULL

\* canUserManage without its owner test: only a manager record grants.
TeamCanUserManageByRecord(team, userId) ==
  /\ HasRecord(team.members, userId)
  /\ team.members[FirstIndex(team.members, userId)].role = "manager"

TeamCanUserManage(team, userId) ==
  IF team.owner = userId THEN TRUE
  ELSE /\ HasRecord(team.members, userId)
       /\ team.members[FirstIndex(team.members, userId)].role = "manager"

\* removeMember: filter the records of userId out, then save.
TeamRemoveMember(team, userId) ==
  [team EXCEPT !.members = FilterOut(team.members, userId)]

\* updateMemberRole on a present member: the first record of userId gets the
\* new role; the switch rewrites the permissions for manager and member only.
TeamUpdateMemberRole(team, userId, newRole) ==
  LET i   == FirstIndex(team.members, userId)
      old == team.members[i]
  IN  [team EXCEPT !.members[i] =
         [old EXCEPT !.role = newRole,
                     !.permissions = IF newRole \in {"manager", "member"}
                                     THEN TeamPermissions(newRole)
                                     ELSE old.permissions]]

(***************************************************************************)
(* models/Project.js                                                       *)
(***************************************************************************)
ProjectPermissions(role) ==
  [canEditProject |-> role = "lead", canManageTasks |-> role = "lead",
   canInviteMembers |-> role = "lead"]

ProjectMember(u, r, canEdit) ==
  [user |-> u, role |-> r,
   permissions |-> [ProjectPermissions(r) EXCEPT !.canEditProject = canEdit]]

ProjectIsMember(project, userId) == HasRecord(project.members, userId)

\* canUserManage granting every member, whatever the role and permissions.
ProjectCanUserManageAnyMember(project, userId) ==
  project.owner = userId \/ HasRecord(project.members, userId)

ProjectCanUserManage(project, userId) ==
  IF project.owner = userId THEN TRUE
  ELSE /\ HasRecord(project.members, userId)
       /\ LET member == project.members[FirstIndex(project.members, userId)]
          IN  member.role = "lead" \/ member.permissions.canEditProject

\* Project.findById(id).populate('team'): does project.team hold a document?
TeamLoaded(project) ==
  project.team # NULL /\ project.team \in DOMAIN teams

(***************************************************************************)
(* middleware/auth.js: each guard yields "next" or the status it answers.  *)
(***************************************************************************)
requireTeamMember(user, teamId) ==
  IF teamId \notin DOMAIN teams THEN "404"
  ELSE IF userRole[user] = "admin" THEN "next"
  ELSE IF ~TeamIsMember(teams[teamId], user) THEN "403"
  ELSE "next"

requireTeamManager(user, teamId) ==
  IF teamId \notin DOMAIN teams THEN "404"
  ELSE IF userRole[user] = "admin" THEN "next"
  ELSE IF ~TeamCanUserManage(teams[teamId], user) THEN "403"
  ELSE "next"

requireProjectMember(user, projectId) ==
  IF projectId \notin DOMAIN projects THEN "404"
  ELSE IF userRole[user] = "admin" THEN "next"
  ELSE LET project         == projects[projectId]
           isProjectMember == ProjectIsMember(project, user)
           isTeamMember    == TeamLoaded(project)
                              /\ TeamIsMember(teams[project.team], user)
       IN  IF ~isProjectMember /\ ~isTeamMember THEN "403" ELSE "next"

\* requireProjectManager without the cascade through the project's team.
requireProjectManagerNoTeam(user, projectId) ==
  IF projectId \notin DOMAIN projects THEN "404"
  ELSE IF userRole[user] = "admin" THEN "next"
  ELSE IF ~ProjectCanUserManage(projects[projectId], user) THEN "403"
  ELSE "next"

\* requireProjectManager cascading on team membership instead of team manage.
requireProjectManagerAnyTeamMember(user, projectId) ==
  IF projectId \notin DOMAIN projects THEN "404"
  ELSE IF userRole[user] = "admin" THEN "next"
  ELSE LET project          == projects[projectId]
           canManageProject == ProjectCanUserManage(project, user)
           canManageTeam    == TeamLoaded(project)
                               /\ TeamIsMember(teams[project.team], user)
       IN  IF ~canManageProject /\ ~canManageTeam THEN "403" ELSE "next"

requireProjectManager(user, projectId) ==
  IF projectId \notin DOMAIN projects THEN "404"
  ELSE IF userRole[user] = "admin" THEN "next"
  ELSE LET project          == projects[projectId]
           canManageProject == ProjectCanUserManage(project, user)
           canManageTeam    == TeamLoaded(project)
                               /\ TeamCanUserManage(teams[project.team], user)
       IN  IF ~canManageProject /\ ~canManageTeam THEN "403" ELSE "next"

(***************************************************************************)
(* controllers/tasks.js: the access expressions of getTask, updateTask and *)
(* deleteTask.  Each is a chain of || evaluated left to right: the first   *)
(* truthy clause ends it, and a clause that reads a property of null       *)
(* throws a TypeError before any later clause is looked at.                *)
(***************************************************************************)
\* Project.findById(task.project): is there a document?
ProjectLoaded(task) ==
  task.project # NULL /\ task.project \in DOMAIN projects

hasAccess(user, task) ==
  IF task.assignedTo # NULL /\ task.assignedTo = user THEN "true"
  ELSE IF task.createdBy = user THEN "true"
  ELSE IF \E i \in DOMAIN task.watchers : task.watchers[i] = user THEN "true"
  ELSE IF ~ProjectLoaded(task) THEN "TypeError"
  ELSE IF ProjectIsMember(projects[task.project], user) THEN "true"
  ELSE IF ~TeamLoaded(projects[task.project]) THEN "TypeError"
  ELSE IF TeamIsMember(teams[projects[task.project].team], user) THEN "true"
  ELSE IF userRole[user] = "admin" THEN "true"
  ELSE "false"

canUpdate(user, task) ==
  IF task.assignedTo # NULL /\ task.assignedTo = user THEN "true"
  ELSE IF task.createdBy = user THEN "true"
  ELSE IF ~ProjectLoaded(task) THEN "TypeError"
  ELSE IF ProjectCanUserManage(projects[task.project], user) THEN "true"
  ELSE IF ~TeamLoaded(projects[task.project]) THEN "TypeError"
  ELSE IF TeamCanUserManage(teams[projects[task.project].team], user) THEN "true"
  ELSE IF userRole[user] = "admin" THEN "true"
  ELSE "false"

canDelete(user, task) ==
  IF task.createdBy = user THEN "true"
  ELSE IF ~ProjectLoaded(task) THEN "TypeError"
  ELSE IF ProjectCanUserManage(projects[task.project], user) THEN "true"
  ELSE IF ~TeamLoaded(projects[task.project]) THEN "TypeError"
  ELSE IF TeamCanUserManage(teams[projects[task.project].team], user) THEN "true"
  ELSE IF userRole[user] = "admin" THEN "true"
  ELSE "false"

\* What the handler answers for a value of its access expression: 200 when
\* truthy, ErrorResponse 403 when falsy, and the exception leaves the handler
\* (status "throw") when the expression threw.
AccessStatus(access) ==
  CASE access = "true"  -> "200"
    [] access = "false" -> "403"
    [] OTHER            -> "throw"

\* const { role = d } = req.body: the body's role, or d when it has none.
BodyRole(role, d) == IF role = NULL THEN d ELSE role

\* The last request: its handler, the authenticated user, the :userId route
\* parameter (null when the route has none) and the answer.
Response(op, user, target, status) ==
  [op |-> op, user |-> user, target |-> target, status |-> status]

\* userSchema.methods.setRolePermissions: the permissions of a global role
\* (protect calls it on the user it loaded, before every handler).
setRolePermissions(role) ==
  [canCreateTeams     |-> role \in {"admin", "team_manager"},
   canManageUsers     |-> role = "admin",
   canViewAllProjects |-> role = "admin",
   canManageProjects  |-> role \in {"admin", "team_manager"}]

\* userSchema.methods.hasPermission, on the user protect loaded.
hasPermission(user, permission) ==
  \/ userRole[user] = "admin"
  \/ setRolePermissions(userRole[user])[permission]

(***************************************************************************)
(* Requests on a team: routes/teams.js + controllers/teams.js              *)
(***************************************************************************)
\* GET /teams/:teamId   requireTeamMember, getTeam
GetTeam(user, teamId) ==
  /\ resp' = Response("getTeam", user, NULL,
                      IF requireTeamMember(user, teamId) = "next"
                      THEN "200" ELSE requireTeamMember(user, teamId))
  /\ UNCHANGED <<teams, projects, tasks, userTeams, activeTeam, inflight>>

\* PUT /teams/:teamId   requireTeamManager, updateTeam (name, description,
\* isPrivate, color and settings only: no field of the model).
UpdateTeam(user, teamId) ==
  /\ resp' = Response("updateTeam", user, NULL,
                      IF requireTeamManager(user, teamId) = "next"
                      THEN "200" ELSE requireTeamManager(user, teamId))
  /\ UNCHANGED <<teams, projects, tasks, userTeams, activeTeam, inflight>>

\* $pull: { teams: { team: teamId } } on a user's teams list.
RECURSIVE PullTeam(_, _)
PullTeam(list, teamId) ==
  IF list = <<>> THEN <<>>
  ELSE IF Head(list).team = teamId
       THEN PullTeam(Tail(list), teamId)
       ELSE <<Head(list)>> \o PullTeam(Tail(list), teamId)

\* removeMember without its 'Cannot remove team owner' test.
RemoveMemberUnprotected(user, teamId, userId) ==
  LET guard == requireTeamManager(user, teamId)
  IN  IF guard # "next"
      THEN /\ resp' = Response("removeMember", user, userId, guard)
           /\ UNCHANGED <<teams, projects, tasks, userTeams, activeTeam, inflight>>
      ELSE /\ teams' = [teams EXCEPT ![teamId] = TeamRemoveMember(@, userId)]
           /\ userTeams' = [userTeams EXCEPT ![userId] = PullTeam(@, teamId)]
           /\ activeTeam' = [activeTeam EXCEPT ![userId] = NULL]
           /\ resp' = Response("removeMember", user, userId, "200")
           /\ UNCHANGED <<projects, tasks, inflight>>

\* DELETE /teams/:teamId/members/:userId   requireTeamManager, removeMember
RemoveMember(user, teamId, userId) ==
  LET guard == requireTeamManager(user, teamId)
  IN  IF guard # "next"
      THEN /\ resp' = Response("removeMember", user, userId, guard)
           /\ UNCHANGED <<teams, projects, tasks, userTeams, activeTeam, inflight>>
      ELSE IF teams[teamId].owner = userId
      THEN /\ resp' = Response("removeMember", user, userId, "400")
           /\ UNCHANGED <<teams, projects, tasks, userTeams, activeTeam, inflight>>
      ELSE /\ teams' = [teams EXCEPT ![teamId] = TeamRemoveMember(@, userId)]
           /\ userTeams' = [userTeams EXCEPT ![userId] = PullTeam(@, teamId)]
           /\ activeTeam' = [activeTeam EXCEPT ![userId] = NULL]
           /\ resp' = Response("removeMember", user, userId, "200")
           /\ UNCHANGED <<projects, tasks, inflight>>

\* $set: { 'teams.$.role': role } on the first entry of the list for teamId.
SetTeamRole(list, teamId, role) ==
  IF \E i \in DOMAIN list : list[i].team = teamId
  THEN LET i == CHOOSE k \in DOMAIN list :
                  /\ list[k].team = teamId
                  /\ \A j \in DOMAIN list : list[j].team = teamId => k <= j
       IN  [list EXCEPT ![i].role = role]
  ELSE list

\* updateMemberRole without its 'Cannot change team owner role' test.
UpdateMemberRoleUnprotected(user, teamId, userId, role) ==
  LET guard == requireTeamManager(user, teamId)
  IN  IF guard # "next"
      THEN /\ resp' = Response("updateMemberRole", user, userId, guard)
           /\ UNCHANGED <<teams, projects, tasks, userTeams, activeTeam, inflight>>
      ELSE IF ~TeamIsMember(teams[teamId], userId) \/ role \notin TeamRoles
      THEN /\ resp' = Response("updateMemberRole", user, userId, "throw")
           /\ UNCHANGED <<teams, projects, tasks, userTeams, activeTeam, inflight>>
      ELSE /\ teams' = [teams EXCEPT ![teamId] = TeamUpdateMemberRole(@, userId, role)]
           /\ userTeams' = [userTeams EXCEPT ![userId] = SetTeamRole(@, teamId, role)]
           /\ resp' = Response("updateMemberRole", user, userId, "200")
           /\ UNCHANGED <<projects, tasks, activeTeam, inflight>>

\* PUT /teams/:teamId/members/:userId/role   requireTeamManager, updateMemberRole
\* team.updateMemberRole throws for a non-member, and save() rejects a role
\* outside the schema's enum; either way nothing is written.
UpdateMemberRole(user, teamId, userId, role) ==
  LET guard == requireTeamManager(user, teamId)
  IN  IF guard # "next"
      THEN /\ resp' = Response("updateMemberRole", user, userId, guard)
           /\ UNCHANGED <<teams, projects, tasks, userTeams, activeTeam, inflight>>
      ELSE IF teams[teamId].owner = userId
      THEN /\ resp' = Response("updateMemberRole", user, userId, "400")
           /\ UNCHANGED <<teams, projects, tasks, userTeams, activeTeam, inflight>>
      ELSE IF ~TeamIsMember(teams[teamId], userId) \/ role \notin TeamRoles
      THEN /\ resp' = Response("updateMemberRole", user, userId, "throw")
           /\ UNCHANGED <<teams, projects, tasks, userTeams, activeTeam, inflight>>
      ELSE /\ teams' = [teams EXCEPT ![teamId] = TeamUpdateMemberRole(@, userId, role)]
           /\ userTeams' = [userTeams EXCEPT ![userId] = SetTeamRole(@, teamId, role)]
           /\ resp' = Response("updateMemberRole", user, userId, "200")
           /\ UNCHANGED <<projects, tasks, activeTeam, inflight>>

\* addMember's own test: it throws 'User is already a member of this team'.
TeamAddMemberThrows(team, userId) == TeamIsMember(team, userId)

\* addMember past its isMember test: push the record built by the switch.
TeamAddMember(team, userId, role) ==
  [team EXCEPT !.members = Append(@, TeamMember(userId, role))]

\* $push: { teams: { team, role } } on a user's teams list.
PushTeam(list, teamId, role) == Append(list, [team |-> teamId, role |-> role])

\* createTeam storing the team without the creator's membership record.
CreateTeamWithoutRecord(user, teamId, name, isPrivate) ==
  IF name = ""
  THEN /\ resp' = Response("createTeam", user, NULL, "400")
       /\ UNCHANGED <<teams, projects, tasks, userTeams, activeTeam, inflight>>
  ELSE /\ teamId \notin DOMAIN teams
       /\ teams' = [t \in DOMAIN teams \cup {teamId} |->
                      IF t = teamId
                      THEN [owner |-> user, isPrivate |-> isPrivate, members |-> <<>>]
                      ELSE teams[t]]
       /\ userTeams' = [userTeams EXCEPT ![user] = PushTeam(@, teamId, "owner")]
       /\ activeTeam' = [activeTeam EXCEPT ![user] = teamId]
       /\ resp' = Response("createTeam", user, NULL, "201")
       /\ UNCHANGED <<projects, tasks, inflight>>

\* POST /teams   createTeam.  A team document of this model carries isPrivate
\* from here on; name is the body's name after trim.
CreateTeam(user, teamId, name, isPrivate) ==
  IF name = ""
  THEN /\ resp' = Response("createTeam", user, NULL, "400")
       /\ UNCHANGED <<teams, projects, tasks, userTeams, activeTeam, inflight>>
  ELSE /\ teamId \notin DOMAIN teams
       /\ teams' = [t \in DOMAIN teams \cup {teamId} |->
                      IF t = teamId
                      THEN [owner |-> user, isPrivate |-> isPrivate,
                            members |-> <<TeamMember(user, "owner")>>]
                      ELSE teams[t]]
       /\ userTeams' = [userTeams EXCEPT ![user] = PushTeam(@, teamId, "owner")]
       /\ activeTeam' = [activeTeam EXCEPT ![user] = teamId]
       /\ resp' = Response("createTeam", user, NULL, "201")
       /\ UNCHANGED <<projects, tasks, inflight>>

\* POST /teams/:teamId/join   joinTeam (no guard on the route)
JoinTeam(user, teamId) ==
  IF teamId \notin DOMAIN teams
  THEN /\ resp' = Response("joinTeam", user, user, "404")
       /\ UNCHANGED <<teams, projects, tasks, userTeams, activeTeam, inflight>>
  ELSE IF teams[teamId].isPrivate
  THEN /\ resp' = Response("joinTeam", user, user, "403")
       /\ UNCHANGED <<teams, projects, tasks, userTeams, activeTeam, inflight>>
  ELSE IF TeamIsMember(teams[teamId], user)
  THEN /\ resp' = Response("joinTeam", user, user, "400")
       /\ UNCHANGED <<teams, projects, tasks, userTeams, activeTeam, inflight>>
  ELSE /\ teams' = [teams EXCEPT ![teamId] = TeamAddMember(@, user, "member")]
       /\ userTeams' = [userTeams EXCEPT ![user] = PushTeam(@, teamId, "member")]
       /\ resp' = Response("joinTeam", user, user, "200")
       /\ UNCHANGED <<projects, tasks, activeTeam, inflight>>

\* POST /teams/:teamId/leave   requireTeamMember, leaveTeam
LeaveTeam(user, teamId) ==
  LET guard == requireTeamMember(user, teamId)
  IN  IF guard # "next"
      THEN /\ resp' = Response("leaveTeam", user, user, guard)
           /\ UNCHANGED <<teams, projects, tasks, userTeams, activeTeam, inflight>>
      ELSE IF teams[teamId].owner = user
      THEN /\ resp' = Response("leaveTeam", user, user, "400")
           /\ UNCHANGED <<teams, projects, tasks, userTeams, activeTeam, inflight>>
      ELSE /\ teams' = [teams EXCEPT ![teamId] = TeamRemoveMember(@, user)]
           /\ userTeams' = [userTeams EXCEPT ![user] = PullTeam(@, teamId)]
           /\ activeTeam' = [activeTeam EXCEPT ![user] = NULL]
           /\ resp' = Response("leaveTeam", user, user, "200")
           /\ UNCHANGED <<projects, tasks, inflight>>

\* POST /teams/:teamId/invite   requireTeamManager, inviteMember.  userId is
\* the user User.findOne({ email }) finds (null: nobody has that email); role
\* is the body's role (null: the body has none, so 'member').  A role outside
\* the schema's enum makes addMember's save() reject, before the user's
\* teams list is touched.
InviteMember(user, teamId, userId, role) ==
  LET guard   == requireTeamManager(user, teamId)
      newRole == BodyRole(role, "member")
  IN  IF guard # "next"
      THEN /\ resp' = Response("inviteMember", user, userId, guard)
           /\ UNCHANGED <<teams, projects, tasks, userTeams, activeTeam, inflight>>
      ELSE IF userId = NULL
      THEN /\ resp' = Response("inviteMember", user, userId, "404")
           /\ UNCHANGED <<teams, projects, tasks, userTeams, activeTeam, inflight>>
      ELSE IF TeamIsMember(teams[teamId], userId)
      THEN /\ resp' = Response("inviteMember", user, userId, "400")
           /\ UNCHANGED <<teams, projects, tasks, userTeams, activeTeam, inflight>>
      ELSE IF newRole \notin TeamRoles
      THEN /\ resp' = Response("inviteMember", user, userId, "throw")
           /\ UNCHANGED <<teams, projects, tasks, userTeams, activeTeam, inflight>>
      ELSE /\ teams' = [teams EXCEPT ![teamId] = TeamAddMember(@, userId, newRole)]
           /\ userTeams' = [userTeams EXCEPT ![userId] = PushTeam(@, teamId, newRole)]
           /\ resp' = Response("inviteMember", user, userId, "200")
           /\ UNCHANGED <<projects, tasks, activeTeam, inflight>>

\* User.updateMany({ 'teams.team': id }, { $pull ..., $unset activeTeam }):
\* the users whose teams list has an entry for the team.
ListsTeam(list, teamId) ==
  \E i \in DOMAIN list : list[i].team = teamId

\* deleteTeam running its User.updateMany before its owner-or-admin test.
DeleteTeamCascadeFirst(user, teamId) ==
  LET guard == requireTeamManager(user, teamId)
  IN  IF guard # "next"
      THEN /\ resp' = Response("deleteTeam", user, NULL, guard)
           /\ UNCHANGED <<teams, projects, tasks, userTeams, activeTeam, inflight>>
      ELSE /\ userTeams' = [u \in Users |-> PullTeam(userTeams[u], teamId)]
           /\ activeTeam' = [u \in Users |->
                               IF ListsTeam(userTeams[u], teamId)
                               THEN NULL ELSE activeTeam[u]]
           /\ IF teams[teamId].owner # user /\ userRole[user] # "admin"
              THEN /\ resp' = Response("deleteTeam", user, NULL, "403")
                   /\ UNCHANGED <<teams, projects>>
              ELSE /\ projects' = [p \in {q \in DOMAIN projects :
                                            projects[q].team # teamId} |-> projects[p]]
                   /\ teams' = [t \in DOMAIN teams \ {teamId} |-> teams[t]]
                   /\ resp' = Response("deleteTeam", user, NULL, "200")
           /\ UNCHANGED <<tasks, inflight>>

\* deleteTeam without its Project.deleteMany: the team's projects stay stored.
DeleteTeamKeepsProjects(user, teamId) ==
  LET guard == requireTeamManager(user, teamId)
  IN  IF guard # "next"
      THEN /\ resp' = Response("deleteTeam", user, NULL, guard)
           /\ UNCHANGED <<teams, projects, tasks, userTeams, activeTeam, inflight>>
      ELSE IF teams[teamId].owner # user /\ userRole[user] # "admin"
      THEN /\ resp' = Response("deleteTeam", user, NULL, "403")
           /\ UNCHANGED <<teams, projects, tasks, userTeams, activeTeam, inflight>>
      ELSE /\ userTeams' = [u \in Users |-> PullTeam(userTeams[u], teamId)]
           /\ activeTeam' = [u \in Users |->
                               IF ListsTeam(userTeams[u], teamId)
                               THEN NULL ELSE activeTeam[u]]
           /\ teams' = [t \in DOMAIN teams \ {teamId} |-> teams[t]]
           /\ resp' = Response("deleteTeam", user, NULL, "200")
           /\ UNCHANGED <<projects, tasks, inflight>>

\* DELETE /teams/:teamId   requireTeamManager, deleteTeam
DeleteTeam(user, teamId) ==
  LET guard == requireTeamManager(user, teamId)
  IN  IF guard # "next"
      THEN /\ resp' = Response("deleteTeam", user, NULL, guard)
           /\ UNCHANGED <<teams, projects, tasks, userTeams, activeTeam, inflight>>
      ELSE IF teams[teamId].owner # user /\ userRole[user] # "admin"
      THEN /\ resp' = Response("deleteTeam", user, NULL, "403")
           /\ UNCHANGED <<teams, projects, tasks, userTeams, activeTeam, inflight>>
      ELSE /\ userTeams' = [u \in Users |-> PullTeam(userTeams[u], teamId)]
           /\ activeTeam' = [u \in Users |->
                               IF ListsTeam(userTeams[u], teamId)
                               THEN NULL ELSE activeTeam[u]]
           /\ projects' = [p \in {q \in DOMAIN projects :
                                    projects[q].team # teamId} |-> projects[p]]
           /\ teams' = [t \in DOMAIN teams \ {teamId} |-> teams[t]]
           /\ resp' = Response("deleteTeam", user, NULL, "200")
           /\ UNCHANGED <<tasks, inflight>>

(***************************************************************************)
(* Requests on a project: routes/projects.js + controllers/projects.js     *)
(***************************************************************************)
\* GET /projects/:projectId   requireProjectMember, getProject
GetProject(user, projectId) ==
  /\ resp' = Response("getProject", user, NULL,
                      IF requireProjectMember(user, projectId) = "next"
                      THEN "200" ELSE requireProjectMember(user, projectId))
  /\ UNCHANGED <<teams, projects, tasks, userTeams, activeTeam, inflight>>

\* PUT /projects/:projectId   requireProjectManager, updateProject (title,
\* dates, status, ... : neither owner, team nor members).
UpdateProject(user, projectId) ==
  /\ resp' = Response("updateProject", user, NULL,
                      IF requireProjectManager(user, projectId) = "next"
                      THEN "200" ELSE requireProjectManager(user, projectId))
  /\ UNCHANGED <<teams, projects, tasks, userTeams, activeTeam, inflight>>

\* POST /projects   createProject.  title is the body's title after trim;
\* team is the body's team (null: none given).
CreateProject(user, projectId, title, team) ==
  IF title = ""
  THEN /\ resp' = Response("createProject", user, NULL, "400")
       /\ UNCHANGED <<teams, projects, tasks, userTeams, activeTeam, inflight>>
  ELSE IF team # NULL /\ team \notin DOMAIN teams
  THEN /\ resp' = Response("createProject", user, NULL, "404")
       /\ UNCHANGED <<teams, projects, tasks, userTeams, activeTeam, inflight>>
  ELSE IF team # NULL /\ ~TeamIsMember(teams[team], user) /\ userRole[user] # "admin"
  THEN /\ resp' = Response("createProject", user, NULL, "403")
       /\ UNCHANGED <<teams, projects, tasks, userTeams, activeTeam, inflight>>
  ELSE /\ projectId \notin DOMAIN projects
       /\ projects' = [p \in DOMAIN projects \cup {projectId} |->
                         IF p = projectId
                         THEN [owner |-> user, team |-> team,
                               members |-> <<ProjectMember(user, "lead", TRUE)>>]
                         ELSE projects[p]]
       /\ resp' = Response("createProject", user, NULL, "201")
       /\ UNCHANGED <<teams, tasks, userTeams, activeTeam, inflight>>

\* DELETE /projects/:projectId   requireProjectManager, deleteProject
DeleteProject(user, projectId) ==
  LET guard == requireProjectManager(user, projectId)
  IN  IF guard # "next"
      THEN /\ resp' = Response("deleteProject", user, NULL, guard)
           /\ UNCHANGED <<teams, projects, tasks, userTeams, activeTeam, inflight>>
      ELSE IF projects[projectId].owner # user /\ userRole[user] # "admin"
      THEN /\ resp' = Response("deleteProject", user, NULL, "403")
           /\ UNCHANGED <<teams, projects, tasks, userTeams, activeTeam, inflight>>
      ELSE /\ tasks' = [k \in {j \in DOMAIN tasks :
                                 tasks[j].project # projectId} |-> tasks[k]]
           /\ projects' = [p \in DOMAIN projects \ {projectId} |-> projects[p]]
           /\ resp' = Response("deleteProject", user, NULL, "200")
           /\ UNCHANGED <<teams, userTeams, activeTeam, inflight>>

\* POST /projects/:projectId/archive   requireProjectManager, archiveProject
\* (isArchived, archivedAt, archivedBy: no field of the model).
ArchiveProject(user, projectId) ==
  /\ resp' = Response("archiveProject", user, NULL,
                      IF requireProjectManager(user, projectId) = "next"
                      THEN "200" ELSE requireProjectManager(user, projectId))
  /\ UNCHANGED <<teams, projects, tasks, userTeams, activeTeam, inflight>>

\* Project addMember past its isMember test: push the record built by the
\* switch (lead: the three permissions true; every other role: false).
ProjectAddMember(project, userId, role) ==
  [project EXCEPT !.members =
     Append(@, ProjectMember(userId, role, ProjectPermissions(role).canEditProject))]

\* addProjectMember whose addMember has lost its isMember test.
AddProjectMemberUnchecked(user, projectId, userId, role) ==
  LET guard   == requireProjectManager(user, projectId)
      newRole == BodyRole(role, "developer")
  IN  IF guard # "next"
      THEN /\ resp' = Response("addProjectMember", user, userId, guard)
           /\ UNCHANGED <<teams, projects, tasks, userTeams, activeTeam, inflight>>
      ELSE IF userId = NULL
      THEN /\ resp' = Response("addProjectMember", user, userId, "404")
           /\ UNCHANGED <<teams, projects, tasks, userTeams, activeTeam, inflight>>
      ELSE IF newRole \notin ProjectRoles
      THEN /\ resp' = Response("addProjectMember", user, userId, "throw")
           /\ UNCHANGED <<teams, projects, tasks, userTeams, activeTeam, inflight>>
      ELSE /\ projects' = [projects EXCEPT ![projectId] =
                             ProjectAddMember(@, userId, newRole)]
           /\ resp' = Response("addProjectMember", user, userId, "200")
           /\ UNCHANGED <<teams, tasks, userTeams, activeTeam, inflight>>

\* POST /projects/:projectId/members   requireProjectManager, addProjectMember.
\* userId is the user User.findById finds (null: none); role is the body's
\* role (null: the body has none, so 'developer').  project.addMember throws
\* 'User is already a member of this project' (status AlreadyMember); a role
\* outside the schema's enum makes its save() reject.
AddProjectMember(user, projectId, userId, role) ==
  LET guard   == requireProjectManager(user, projectId)
      newRole == BodyRole(role, "developer")
  IN  IF guard # "next"
      THEN /\ resp' = Response("addProjectMember", user, userId, guard)
           /\ UNCHANGED <<teams, projects, tasks, userTeams, activeTeam, inflight>>
      ELSE IF userId = NULL
      THEN /\ resp' = Response("addProjectMember", user, userId, "404")
           /\ UNCHANGED <<teams, projects, tasks, userTeams, activeTeam, inflight>>
      ELSE IF ProjectIsMember(projects[projectId], userId)
      THEN /\ resp' = Response("addProjectMember", user, userId, "AlreadyMember")
           /\ UNCHANGED <<teams, projects, tasks, userTeams, activeTeam, inflight>>
      ELSE IF newRole \notin ProjectRoles
      THEN /\ resp' = Response("addProjectMember", user, userId, "throw")
           /\ UNCHANGED <<teams, projects, tasks, userTeams, activeTeam, inflight>>
      ELSE /\ projects' = [projects EXCEPT ![projectId] =
                             ProjectAddMember(@, userId, newRole)]
           /\ resp' = Response("addProjectMember", user, userId, "200")
           /\ UNCHANGED <<teams, tasks, userTeams, activeTeam, inflight>>

\* DELETE /projects/:projectId/members/:userId   requireProjectManager,
\* removeProjectMember
RemoveProjectMember(user, projectId, userId) ==
  LET guard == requireProjectManager(user, projectId)
  IN  IF guard # "next"
      THEN /\ resp' = Response("removeProjectMember", user, userId, guard)
           /\ UNCHANGED <<teams, projects, tasks, userTeams, activeTeam, inflight>>
      ELSE IF projects[projectId].owner = userId
      THEN /\ resp' = Response("removeProjectMember", user, userId, "400")
           /\ UNCHANGED <<teams, projects, tasks, userTeams, activeTeam, inflight>>
      ELSE /\ projects' = [projects EXCEPT ![projectId].members = FilterOut(@, userId)]
           /\ resp' = Response("removeProjectMember", user, userId, "200")
           /\ UNCHANGED <<teams, tasks, userTeams, activeTeam, inflight>>

\* updateProjectMemberRole on a present member: the first record of userId
\* gets the role, and the permissions of the switch (lead / default).
ProjectUpdateMemberRole(project, userId, role) ==
  LET i == FirstIndex(project.members, userId)
  IN  [project EXCEPT !.members[i] =
         [@ EXCEPT !.role = role, !.permissions = ProjectPermissions(role)]]

\* PUT /projects/:projectId/members/:userId/role   requireProjectManager,
\* updateProjectMemberRole.  A role outside the schema's enum makes save()
\* reject, and nothing is written.
UpdateProjectMemberRole(user, projectId, userId, role) ==
  LET guard == requireProjectManager(user, projectId)
  IN  IF guard # "next"
      THEN /\ resp' = Response("updateProjectMemberRole", user, userId, guard)
           /\ UNCHANGED <<teams, projects, tasks, userTeams, activeTeam, inflight>>
      ELSE IF ~ProjectIsMember(projects[projectId], userId)
      THEN /\ resp' = Response("updateProjectMemberRole", user, userId, "404")
           /\ UNCHANGED <<teams, projects, tasks, userTeams, activeTeam, inflight>>
      ELSE IF role \notin ProjectRoles
      THEN /\ resp' = Response("updateProjectMemberRole", user, userId, "throw")
           /\ UNCHANGED <<teams, projects, tasks, userTeams, activeTeam, inflight>>
      ELSE /\ projects' = [projects EXCEPT ![projectId] =
                             ProjectUpdateMemberRole(@, userId, role)]
           /\ resp' = Response("updateProjectMemberRole", user, userId, "200")
           /\ UNCHANGED <<teams, tasks, userTeams, activeTeam, inflight>>

(***************************************************************************)
(* Requests on a task: routes/tasks.js + controllers/tasks.js              *)
(***************************************************************************)
\* GET /tasks/:taskId
GetTask(user, taskId) ==
  /\ resp' = Response("getTask", user, NULL,
                      IF taskId \notin DOMAIN tasks THEN "404"
                      ELSE AccessStatus(hasAccess(user, tasks[taskId])))
  /\ UNCHANGED <<teams, projects, tasks, userTeams, activeTeam, inflight>>

\* PUT /tasks/:taskId with a body that sets assignedTo to assignee, or that
\* has no assignedTo field (assignee = null): Task.findByIdAndUpdate(id, body).
UpdateTask(user, taskId, assignee) ==
  LET status == IF taskId \notin DOMAIN tasks THEN "404"
                ELSE AccessStatus(canUpdate(user, tasks[taskId]))
  IN  /\ resp' = Response("updateTask", user, NULL, status)
      /\ tasks' = IF status = "200" /\ assignee # NULL
                  THEN [tasks EXCEPT ![taskId].assignedTo = assignee]
                  ELSE tasks
      /\ UNCHANGED <<teams, projects, userTeams, activeTeam, inflight>>

\* DELETE /tasks/:taskId
DeleteTask(user, taskId) ==
  LET status == IF taskId \notin DOMAIN tasks THEN "404"
                ELSE AccessStatus(canDelete(user, tasks[taskId]))
  IN  /\ resp' = Response("deleteTask", user, NULL, status)
      /\ tasks' = IF status = "200"
                  THEN [k \in DOMAIN tasks \ {taskId} |-> tasks[k]]
                  ELSE tasks
      /\ UNCHANGED <<teams, projects, userTeams, activeTeam, inflight>>

\* createTask's own access test (no null dereference: it tests projectDoc.team).
CanCreateTaskIn(user, projectId) ==
  \/ ProjectIsMember(projects[projectId], user)
  \/ /\ TeamLoaded(projects[projectId])
     /\ TeamIsMember(teams[projects[projectId].team], user)
  \/ userRole[user] = "admin"

\* POST /tasks   createTask.  title is the body's title after trim; project
\* and assignedTo are the body's (null: none given).
CreateTask(user, taskId, title, project, assignedTo) ==
  IF title = ""
  THEN /\ resp' = Response("createTask", user, assignedTo, "400")
       /\ UNCHANGED <<teams, projects, tasks, userTeams, activeTeam, inflight>>
  ELSE IF project # NULL /\ project \notin DOMAIN projects
  THEN /\ resp' = Response("createTask", user, assignedTo, "404")
       /\ UNCHANGED <<teams, projects, tasks, userTeams, activeTeam, inflight>>
  ELSE IF project # NULL /\ ~CanCreateTaskIn(user, project)
  THEN /\ resp' = Response("createTask", user, assignedTo, "403")
       /\ UNCHANGED <<teams, projects, tasks, userTeams, activeTeam, inflight>>
  ELSE /\ taskId \notin DOMAIN tasks
       /\ tasks' = [k \in DOMAIN tasks \cup {taskId} |->
                      IF k = taskId
                      THEN [project |-> project, createdBy |-> user,
                            assignedTo |-> IF assignedTo # NULL THEN assignedTo ELSE user,
                            watchers |-> <<user>>]
                      ELSE tasks[k]]
       /\ resp' = Response("createTask", user, assignedTo, "201")
       /\ UNCHANGED <<teams, projects, userTeams, activeTeam, inflight>>

\* task.assignTo: set assignedTo, push the assignee onto watchers unless
\* watchers.includes(userId), save.
TaskAssignTo(task, userId) ==
  [task EXCEPT !.assignedTo = userId,
               !.watchers = IF userId \in Range(@) THEN @ ELSE Append(@, userId)]

\* POST /tasks/:taskId/assign   assignTask.  userId is the user User.findById
\* finds (null: none).
AssignTask(user, taskId, userId) ==
  IF taskId \notin DOMAIN tasks \/ userId = NULL
  THEN /\ resp' = Response("assignTask", user, userId, "404")
       /\ UNCHANGED <<teams, projects, tasks, userTeams, activeTeam, inflight>>
  ELSE /\ tasks' = [tasks EXCEPT ![taskId] = TaskAssignTo(@, userId)]
       /\ resp' = Response("assignTask", user, userId, "200")
       /\ UNCHANGED <<teams, projects, userTeams, activeTeam, inflight>>

\* POST /tasks/:taskId/unassign   unassignTask: $unset assignedTo.
UnassignTask(user, taskId) ==
  IF taskId \notin DOMAIN tasks
  THEN /\ resp' = Response("unassignTask", user, NULL, "404")
       /\ UNCHANGED <<teams, projects, tasks, userTeams, activeTeam, inflight>>
  ELSE /\ tasks' = [tasks EXCEPT ![taskId].assignedTo = NULL]
       /\ resp' = Response("unassignTask", user, NULL, "200")
       /\ UNCHANGED <<teams, projects, userTeams, activeTeam, inflight>>

\* POST /tasks/:taskId/watchers   addWatcher.  userId is the body's userId
\* (null: none given, so the caller).
AddWatcher(user, taskId, userId) ==
  LET watcher == IF userId # NULL THEN userId ELSE user
  IN  IF taskId \notin DOMAIN tasks
      THEN /\ resp' = Response("addWatcher", user, userId, "404")
           /\ UNCHANGED <<teams, projects, tasks, userTeams, activeTeam, inflight>>
      ELSE /\ tasks' = [tasks EXCEPT ![taskId].watchers =
                          IF watcher \in Range(@) THEN @ ELSE Append(@, watcher)]
           /\ resp' = Response("addWatcher", user, userId, "200")
           /\ UNCHANGED <<teams, projects, userTeams, activeTeam, inflight>>

\* DELETE /tasks/:taskId/watchers/:userId   removeWatcher
RemoveWatcher(user, taskId, userId) ==
  IF taskId \notin DOMAIN tasks
  THEN /\ resp' = Response("removeWatcher", user, userId, "404")
       /\ UNCHANGED <<teams, projects, tasks, userTeams, activeTeam, inflight>>
  ELSE /\ tasks' = [tasks EXCEPT ![taskId].watchers =
                      SelectSeq(@, LAMBDA w : w # userId)]
       /\ resp' = Response("removeWatcher", user, userId, "200")
       /\ UNCHANGED <<teams, projects, userTeams, activeTeam, inflight>>

(***************************************************************************)
(* Stored documents.  The schemas require owner and, per member record, a  *)
(* user; they do not tie owner to members, nor a record's permissions to   *)
(* its role, and canUserManage / the owner-or-member queries of getTeams   *)
(* treat "owner" and "has a record" as separate facts.  The documents      *)
(* below hold at most one record per user, listed in UserOrder.            *)
(***************************************************************************)
UserOrder == <<"u1", "u2", "u3">>

NoDocs == [x \in {} |-> NULL]

NoResponse == Response("none", NULL, NULL, NULL)

\* members array with one record for each user f gives a role.
TeamMembersOf(f) ==
  LET picked == SelectSeq(UserOrder, LAMBDA u : f[u] # NULL)
  IN  [i \in 1..Len(picked) |-> TeamMember(picked[i], f[picked[i]])]

TeamDocs ==
  {[owner |-> o, members |-> TeamMembersOf(f)] :
     o \in Users, f \in [Users -> TeamRoles \cup {NULL}]}

\* A record kind is <<role, canEditProject>>; <<>> is "no record".
ProjectMemberKinds ==
  {<<>>, <<"lead", TRUE>>, <<"developer", FALSE>>, <<"tester", TRUE>>}

ProjectMembersOf(f) ==
  LET picked == SelectSeq(UserOrder, LAMBDA u : f[u] # <<>>)
  IN  [i \in 1..Len(picked) |->
         ProjectMember(picked[i], f[picked[i]][1], f[picked[i]][2])]

ProjectDocs ==
  {[owner |-> o, team |-> t, members |-> ProjectMembersOf(f)] :
     o \in Users, t \in TeamIds \cup {NULL}, f \in [Users -> ProjectMemberKinds]}

\* User.teams as createTeam / joinTeam / inviteMember leave it: one entry per
\* team record of the user; activeTeam as createTeam leaves it.
MirrorTeams(ts) ==
  [u \in Users |->
     IF "t1" \in DOMAIN ts /\ HasRecord(ts["t1"].members, u)
     THEN <<[team |-> "t1", role |-> TeamGetMemberRole(ts["t1"], u)]>>
     ELSE <<>>]

MirrorActive(ts) ==
  [u \in Users |-> IF "t1" \in DOMAIN ts /\ ts["t1"].owner = u THEN "t1" ELSE NULL]

(***************************************************************************)
(* SpecTeamAccess: any stored team, and the requests guarded by            *)
(* requireTeamMember / requireTeamManager.                                 *)
(***************************************************************************)
InitTeamAccess ==
  /\ teams \in {NoDocs} \cup {[t \in TeamIds |-> d] : d \in TeamDocs}
  /\ projects = NoDocs
  /\ tasks = NoDocs
  /\ userTeams = MirrorTeams(teams)
  /\ activeTeam = MirrorActive(teams)
  /\ resp = NoResponse
  /\ inflight = NoDocs

NextTeamAccess ==
  \E user \in Users, teamId \in TeamIds :
    \/ GetTeam(user, teamId)
    \/ UpdateTeam(user, teamId)
    \/ \E userId \in Users : RemoveMember(user, teamId, userId)
    \/ \E userId \in Users, role \in TeamRoles \cup {"guest"} :
         UpdateMemberRole(user, teamId, userId, role)

SpecTeamAccess == InitTeamAccess /\ [][NextTeamAccess]_vars

(***************************************************************************)
(* SpecProjectAccess: any stored team and project, and the requests        *)
(* guarded by requireProjectMember / requireProjectManager.                *)
(***************************************************************************)
InitProjectAccess ==
  /\ teams \in {NoDocs} \cup {[t \in TeamIds |-> d] : d \in TeamDocs}
  /\ projects \in {NoDocs} \cup {[p \in ProjectIds |-> d] : d \in ProjectDocs}
  /\ tasks = NoDocs
  /\ userTeams = MirrorTeams(teams)
  /\ activeTeam = MirrorActive(teams)
  /\ resp = NoResponse
  /\ inflight = NoDocs

NextProjectAccess ==
  \E user \in Users, projectId \in ProjectIds :
    \/ GetProject(user, projectId)
    \/ UpdateProject(user, projectId)

SpecProjectAccess == InitProjectAccess /\ [][NextProjectAccess]_vars

(***************************************************************************)
(* SpecTaskAccess: any stored task, over a team and a project as the       *)
(* controllers leave them (createTeam / inviteMember: the owner's record   *)
(* first, then at most one invited manager or member; createProject /      *)
(* addProjectMember: the owner's lead record, then at most one developer), *)
(* either of which may have been deleted since.  A task's createdBy,       *)
(* assignedTo and watchers are free: updateTask stores any body and        *)
(* removeWatcher removes anyone.                                           *)
(***************************************************************************)
CreatedTeams ==
  {[owner |-> o, members |-> <<TeamMember(o, "owner")>> \o rest] :
     o \in Users,
     rest \in {<<>>} \cup {<<TeamMember(m, r)>> : m \in Users, r \in {"manager", "member"}}}

CreatedProjects ==
  {[owner |-> o, team |-> t,
    members |-> <<ProjectMember(o, "lead", TRUE)>> \o rest] :
     o \in Users, t \in TeamIds \cup {NULL},
     rest \in {<<>>} \cup {<<ProjectMember(m, "developer", FALSE)>> : m \in Users}}

\* isMember makes addMember refuse a second record for a user.
OneRecordPerUser(doc) ==
  \A i, j \in DOMAIN doc.members :
    doc.members[i].user = doc.members[j].user => i = j

WatcherLists ==
  {SelectSeq(UserOrder, LAMBDA u : u \in S) : S \in SUBSET Users}

TaskDocs ==
  {[project |-> p, createdBy |-> c, assignedTo |-> a, watchers |-> w] :
     p \in ProjectIds \cup {NULL}, c \in Users, a \in Users \cup {NULL},
     w \in WatcherLists}

InitTaskAccess ==
  /\ teams \in {NoDocs} \cup
       {[t \in TeamIds |-> d] : d \in {x \in CreatedTeams : OneRecordPerUser(x)}}
  /\ projects \in {NoDocs} \cup
       {[p \in ProjectIds |-> d] : d \in {x \in CreatedProjects : OneRecordPerUser(x)}}
  /\ tasks \in {NoDocs} \cup {[k \in TaskIds |-> d] : d \in TaskDocs}
  /\ userTeams = MirrorTeams(teams)
  /\ activeTeam = MirrorActive(teams)
  /\ resp = NoResponse
  /\ inflight = NoDocs

NextTaskAccess ==
  \E user \in Users, taskId \in TaskIds :
    \/ GetTask(user, taskId)
    \/ \E assignee \in Users \cup {NULL} : UpdateTask(user, taskId, assignee)
    \/ DeleteTask(user, taskId)

SpecTaskAccess == InitTaskAccess /\ [][NextTaskAccess]_vars

(***************************************************************************)
(* SpecMembership: the membership requests on a team, from an empty        *)
(* database.  Requests do not overlap: each is one step.                   *)
(***************************************************************************)
NoTeams ==
  [u \in Users |-> <<>>]

NoActiveTeam ==
  [u \in Users |-> NULL]

InitMembership ==
  /\ teams = NoDocs
  /\ projects = NoDocs
  /\ tasks = NoDocs
  /\ userTeams = NoTeams
  /\ activeTeam = NoActiveTeam
  /\ resp = NoResponse
  /\ inflight = NoDocs

NextMembership ==
  \E user \in Users, teamId \in TeamIds :
    \/ \E name \in {"", "dev"}, isPrivate \in BOOLEAN :
         CreateTeam(user, teamId, name, isPrivate)
    \/ JoinTeam(user, teamId)
    \/ LeaveTeam(user, teamId)
    \/ \E userId \in Users \cup {NULL}, role \in TeamRoles \cup {"guest", NULL} :
         InviteMember(user, teamId, userId, role)
    \/ \E userId \in Users : RemoveMember(user, teamId, userId)
    \/ \E userId \in Users, role \in TeamRoles \cup {"guest"} :
         UpdateMemberRole(user, teamId, userId, role)

SpecMembership == InitMembership /\ [][NextMembership]_vars

(***************************************************************************)
(* SpecConcurrentAdd: joinTeam and inviteMember requests that overlap.     *)
(* A handler runs to its next await in one step:                           *)
(*   begin  - Team.findById answers (for inviteMember: after the guard and *)
(*            before User.findOne), the handler tests isPrivate/isMember,  *)
(*            addMember tests isMember again on the same loaded document,  *)
(*            pushes the record and calls save();                          *)
(*   save   - the save reaches the database: the loaded document's only    *)
(*            change is the pushed record, and Mongoose writes that change *)
(*            as a $push on members, not the array it loaded;              *)
(*   mirror - User.findByIdAndUpdate $push on the user's teams list, and   *)
(*            the answer.                                                  *)
(***************************************************************************)
Requests == {"r1", "r2"}

\* inflight with request r added, holding what the handler has in hand.
Started(r, op, user, teamId, userId, role) ==
  [x \in DOMAIN inflight \cup {r} |->
     IF x = r
     THEN [op |-> op, user |-> user, teamId |-> teamId, userId |-> userId,
           role |-> role, pc |-> "save"]
     ELSE inflight[x]]

BeginJoinTeam(r, user, teamId) ==
  /\ r \notin DOMAIN inflight
  /\ IF teamId \notin DOMAIN teams
     THEN /\ resp' = Response("joinTeam", user, user, "404")
          /\ UNCHANGED inflight
     ELSE IF teams[teamId].isPrivate
     THEN /\ resp' = Response("joinTeam", user, user, "403")
          /\ UNCHANGED inflight
     ELSE IF TeamIsMember(teams[teamId], user)
     THEN /\ resp' = Response("joinTeam", user, user, "400")
          /\ UNCHANGED inflight
     ELSE /\ inflight' = Started(r, "joinTeam", user, teamId, user, "member")
          /\ UNCHANGED resp
  /\ UNCHANGED <<teams, projects, tasks, userTeams, activeTeam>>

BeginInviteMember(r, user, teamId, userId, role) ==
  LET guard   == requireTeamManager(user, teamId)
      newRole == BodyRole(role, "member")
  IN  /\ r \notin DOMAIN inflight
      /\ IF guard # "next"
         THEN /\ resp' = Response("inviteMember", user, userId, guard)
              /\ UNCHANGED inflight
         ELSE IF userId = NULL
         THEN /\ resp' = Response("inviteMember", user, userId, "404")
              /\ UNCHANGED inflight
         ELSE IF TeamIsMember(teams[teamId], userId)
         THEN /\ resp' = Response("inviteMember", user, userId, "400")
              /\ UNCHANGED inflight
         ELSE IF newRole \notin TeamRoles
         THEN /\ resp' = Response("inviteMember", user, userId, "throw")
              /\ UNCHANGED inflight
         ELSE /\ inflight' = Started(r, "inviteMember", user, teamId, userId, newRole)
              /\ UNCHANGED resp
      /\ UNCHANGED <<teams, projects, tasks, userTeams, activeTeam>>

\* The save of addMember reaches the database.
SaveMember(r) ==
  /\ r \in DOMAIN inflight
  /\ inflight[r].pc = "save"
  /\ teams' = [teams EXCEPT ![inflight[r].teamId] =
                 TeamAddMember(@, inflight[r].userId, inflight[r].role)]
  /\ inflight' = [inflight EXCEPT ![r].pc = "mirror"]
  /\ UNCHANGED <<projects, tasks, userTeams, activeTeam, resp>>

\* The $push on the user's teams list, and the answer.
MirrorMember(r) ==
  /\ r \in DOMAIN inflight
  /\ inflight[r].pc = "mirror"
  /\ userTeams' = [userTeams EXCEPT ![inflight[r].userId] =
                     PushTeam(@, inflight[r].teamId, inflight[r].role)]
  /\ resp' = Response(inflight[r].op, inflight[r].user, inflight[r].userId, "200")
  /\ inflight' = [x \in DOMAIN inflight \ {r} |-> inflight[x]]
  /\ UNCHANGED <<teams, projects, tasks, activeTeam>>

NextConcurrentAdd ==
  \/ \E user \in Users, teamId \in TeamIds, isPrivate \in BOOLEAN :
       CreateTeam(user, teamId, "dev", isPrivate)
  \/ \E r \in Requests, user \in Users, teamId \in TeamIds :
       BeginJoinTeam(r, user, teamId)
  \/ \E r \in Requests, user \in Users, teamId \in TeamIds,
        userId \in Users \cup {NULL}, role \in {"manager", "guest", NULL} :
       BeginInviteMember(r, user, teamId, userId, role)
  \/ \E r \in Requests : SaveMember(r)
  \/ \E r \in Requests : MirrorMember(r)

SpecConcurrentAdd == InitMembership /\ [][NextConcurrentAdd]_vars

(***************************************************************************)
(* SpecProjectMembers: the membership requests on a project, from a        *)
(* database without projects, over a team of the team_manager as          *)
(* createTeam / inviteMember leave it (or none).  Requests do not overlap. *)
(***************************************************************************)
InitProjectMembers ==
  /\ teams \in {NoDocs} \cup
       {[t \in TeamIds |-> d] : d \in {x \in CreatedTeams :
                                         x.owner = "u2" /\ OneRecordPerUser(x)}}
  /\ projects = NoDocs
  /\ tasks = NoDocs
  /\ userTeams = MirrorTeams(teams)
  /\ activeTeam = MirrorActive(teams)
  /\ resp = NoResponse
  /\ inflight = NoDocs

NextProjectMembers ==
  \E user \in Users, projectId \in ProjectIds :
    \/ \E title \in {"", "site"}, team \in TeamIds \cup {NULL} :
         CreateProject(user, projectId, title, team)
    \/ \E userId \in Users \cup {NULL}, role \in {"lead", "developer", "guest", NULL} :
         AddProjectMember(user, projectId, userId, role)
    \/ \E userId \in Users : RemoveProjectMember(user, projectId, userId)
    \/ \E userId \in Users, role \in {"lead", "developer", "guest"} :
         UpdateProjectMemberRole(user, projectId, userId, role)

SpecProjectMembers == InitProjectMembers /\ [][NextProjectMembers]_vars

(***************************************************************************)
(* SpecTasks: the requests that create a task and set its assignee and     *)
(* watchers, from a database without tasks, over a project as              *)
(* createProject leaves it (or none) and a team with one invited member    *)
(* (or none).  Requests do not overlap.                                    *)
(***************************************************************************)
InitTasks ==
  /\ teams \in {NoDocs} \cup
       {[t \in TeamIds |-> d] : d \in {x \in CreatedTeams :
                                         /\ OneRecordPerUser(x)
                                         /\ x.owner = "u2"
                                         /\ TeamGetMemberRole(x, "u3") = "member"}}
  /\ projects \in {NoDocs} \cup
       {[p \in ProjectIds |-> d] : d \in {x \in CreatedProjects : Len(x.members) = 1}}
  /\ tasks = NoDocs
  /\ userTeams = MirrorTeams(teams)
  /\ activeTeam = MirrorActive(teams)
  /\ resp = NoResponse
  /\ inflight = NoDocs

NextTasks ==
  \E user \in Users, taskId \in TaskIds :
    \/ \E title \in {"", "fix"}, project \in ProjectIds \cup {NULL},
          assignedTo \in Users \cup {NULL} :
         CreateTask(user, taskId, title, project, assignedTo)
    \/ \E userId \in Users \cup {NULL} : AssignTask(user, taskId, userId)
    \/ UnassignTask(user, taskId)
    \/ \E userId \in Users \cup {NULL} : AddWatcher(user, taskId, userId)
    \/ \E userId \in Users : RemoveWatcher(user, taskId, userId)
    \/ DeleteTask(user, taskId)

SpecTasks == InitTasks /\ [][NextTasks]_vars

(***************************************************************************)
(* SpecGuarded: every guarded request that writes, over a team, a project  *)
(* and a task as the create requests leave them (or none).  Requests do    *)
(* not overlap.                                                            *)
(***************************************************************************)
CreatedTasks ==
  {[project |-> p, createdBy |-> c, assignedTo |-> c, watchers |-> <<c>>] :
     p \in ProjectIds \cup {NULL}, c \in Users}

InitGuarded ==
  /\ teams \in {NoDocs} \cup
       {[t \in TeamIds |-> d] : d \in {x \in CreatedTeams :
                                         /\ x.owner = "u2"
                                         /\ \A i \in DOMAIN x.members :
                                              x.members[i].user \in {"u2", "u3"}
                                         /\ OneRecordPerUser(x)}}
  /\ projects \in {NoDocs} \cup
       {[p \in ProjectIds |-> d] : d \in {x \in CreatedProjects :
                                            Len(x.members) = 1}}
  /\ tasks \in {NoDocs} \cup {[k \in TaskIds |-> d] : d \in CreatedTasks}
  /\ userTeams = MirrorTeams(teams)
  /\ activeTeam = MirrorActive(teams)
  /\ resp = NoResponse
  /\ inflight = NoDocs

\* The :userId / body userId of the membership requests: the employee, the
\* owner of the stored team, or a user that does not exist.
NextGuarded ==
  \/ \E user \in Users, teamId \in TeamIds :
       \/ UpdateTeam(user, teamId)
       \/ DeleteTeam(user, teamId)
       \/ \E userId \in {"u3", NULL} : InviteMember(user, teamId, userId, NULL)
       \/ \E userId \in {"u2", "u3"} : RemoveMember(user, teamId, userId)
       \/ \E userId \in {"u2", "u3"}, role \in {"manager", "member"} :
            UpdateMemberRole(user, teamId, userId, role)
  \/ \E user \in Users, projectId \in ProjectIds :
       \/ UpdateProject(user, projectId)
       \/ DeleteProject(user, projectId)
       \/ ArchiveProject(user, projectId)
       \/ \E userId \in {"u3", NULL} : AddProjectMember(user, projectId, userId, NULL)
       \/ \E userId \in {"u2", "u3"} : RemoveProjectMember(user, projectId, userId)
       \/ \E userId \in {"u2", "u3"}, role \in {"lead", "developer"} :
            UpdateProjectMemberRole(user, projectId, userId, role)
  \/ \E user \in Users, taskId \in TaskIds :
       \/ \E assignee \in {"u3", NULL} : UpdateTask(user, taskId, assignee)
       \/ DeleteTask(user, taskId)

SpecGuarded == InitGuarded /\ [][NextGuarded]_vars

(***************************************************************************)
(* SpecLifecycle: teams, projects and tasks are created and deleted, from  *)
(* an empty database.  Requests do not overlap.  Team.create and           *)
(* Project.create give the document a new _id, one that no stored          *)
(* reference holds.                                                        *)
(***************************************************************************)
NewTeamId(teamId) ==
  /\ teamId \notin DOMAIN teams
  /\ \A p \in DOMAIN projects : projects[p].team # teamId
  /\ \A u \in Users : ~ListsTeam(userTeams[u], teamId) /\ activeTeam[u] # teamId

NewProjectId(projectId) ==
  /\ projectId \notin DOMAIN projects
  /\ \A k \in DOMAIN tasks : tasks[k].project # projectId

NextLifecycle ==
  \/ \E user \in Users, teamId \in TeamIds :
       \/ NewTeamId(teamId) /\ CreateTeam(user, teamId, "dev", FALSE)
       \/ DeleteTeam(user, teamId)
  \/ \E user \in Users, projectId \in ProjectIds :
       \/ /\ NewProjectId(projectId)
          /\ \E team \in TeamIds \cup {NULL} :
               CreateProject(user, projectId, "site", team)
       \/ DeleteProject(user, projectId)
  \/ \E user \in Users, taskId \in TaskIds :
       \/ \E project \in ProjectIds \cup {NULL} :
            CreateTask(user, taskId, "fix", project, NULL)
       \/ DeleteTask(user, taskId)

SpecLifecycle == InitMembership /\ [][NextLifecycle]_vars

(***************************************************************************)
(* SpecConcurrentMembers: inviteMember, removeMember and updateMemberRole  *)
(* requests that overlap, on a stored team.  A handler runs to its next    *)
(* await in one step (begin, save, mirror, as in SpecConcurrentAdd).       *)
(* What save() sends depends on how the method changed the loaded          *)
(* document (Mongoose, default versionKey):                                *)
(*   addMember         members.push(record): a $push of the record, which  *)
(*                     increments the document's version and does not test *)
(*                     it;                                                 *)
(*   removeMember      members = members.filter(...): a $set of the whole  *)
(*                     array the request loaded, which tests the version   *)
(*                     it loaded and increments it; when the filter        *)
(*                     removed nothing, save() sends nothing;              *)
(*   updateMemberRole  member.role / member.permissions of the record      *)
(*                     found: a $set of the changed paths members.i.role   *)
(*                     and members.i.permissions, which tests the version  *)
(*                     and does not increment it; when no path changed,    *)
(*                     save() sends nothing.                               *)
(* A failed version test rejects save() with a VersionError: the handler   *)
(* ends there.  The version a request loaded is no longer the stored one   *)
(* when stale is not empty: stale holds the users whose records the saves  *)
(* that incremented the version since the load added or removed.           *)
(***************************************************************************)
\* inflight with request r added, holding the team document it loaded.
Loaded(r, op, user, teamId, userId, role, doc) ==
  [x \in DOMAIN inflight \cup {r} |->
     IF x = r
     THEN [op |-> op, user |-> user, teamId |-> teamId, userId |-> userId,
           role |-> role, pc |-> "save", doc |-> doc, stale |-> {}]
     ELSE inflight[x]]

\* The requests in flight after r's save incremented the version of the team.
VersionIncremented(r, pc) ==
  [x \in DOMAIN inflight |->
     IF x = r THEN [inflight[x] EXCEPT !.pc = pc]
     ELSE IF "stale" \in DOMAIN inflight[x] /\ inflight[x].teamId = inflight[r].teamId
          THEN [inflight[x] EXCEPT !.stale = @ \cup {inflight[r].userId}]
          ELSE inflight[x]]

Finished(r) == [x \in DOMAIN inflight \ {r} |-> inflight[x]]

BeginRemoveMember(r, user, teamId, userId) ==
  LET guard == requireTeamManager(user, teamId)
  IN  /\ r \notin DOMAIN inflight
      /\ IF guard # "next"
         THEN /\ resp' = Response("removeMember", user, userId, guard)
              /\ UNCHANGED inflight
         ELSE IF teams[teamId].owner = userId
         THEN /\ resp' = Response("removeMember", user, userId, "400")
              /\ UNCHANGED inflight
         ELSE /\ inflight' = Loaded(r, "removeMember", user, teamId, userId, NULL,
                                    teams[teamId])
              /\ UNCHANGED resp
      /\ UNCHANGED <<teams, projects, tasks, userTeams, activeTeam>>

BeginUpdateMemberRole(r, user, teamId, userId, role) ==
  LET guard == requireTeamManager(user, teamId)
  IN  /\ r \notin DOMAIN inflight
      /\ IF guard # "next"
         THEN /\ resp' = Response("updateMemberRole", user, userId, guard)
              /\ UNCHANGED inflight
         ELSE IF teams[teamId].owner = userId
         THEN /\ resp' = Response("updateMemberRole", user, userId, "400")
              /\ UNCHANGED inflight
         ELSE IF ~TeamIsMember(teams[teamId], userId) \/ role \notin TeamRoles
         THEN /\ resp' = Response("updateMemberRole", user, userId, "throw")
              /\ UNCHANGED inflight
         ELSE /\ inflight' = Loaded(r, "updateMemberRole", user, teamId, userId, role,
                                    teams[teamId])
              /\ UNCHANGED resp
      /\ UNCHANGED <<teams, projects, tasks, userTeams, activeTeam>>

\* addMember's save: the $push, on the stored document.
SaveAdded(r) ==
  /\ r \in DOMAIN inflight
  /\ inflight[r].pc = "save"
  /\ inflight[r].op = "inviteMember"
  /\ teams' = [teams EXCEPT ![inflight[r].teamId] =
                 TeamAddMember(@, inflight[r].userId, inflight[r].role)]
  /\ inflight' = VersionIncremented(r, "mirror")
  /\ UNCHANGED <<projects, tasks, userTeams, activeTeam, resp>>

\* removeMember's save: the filtered array replaces the stored one, if the
\* version is the one the request loaded; when the filter removed nothing,
\* save() sends nothing.
SaveRemoved(r) ==
  /\ r \in DOMAIN inflight
  /\ inflight[r].pc = "save"
  /\ inflight[r].op = "removeMember"
  /\ LET filtered == TeamRemoveMember(inflight[r].doc, inflight[r].userId)
     IN  IF filtered = inflight[r].doc
         THEN /\ inflight' = [inflight EXCEPT ![r].pc = "mirror"]
              /\ UNCHANGED <<teams, resp>>
         ELSE IF inflight[r].stale # {}
         THEN /\ resp' = Response("removeMember", inflight[r].user,
                                  inflight[r].userId, "throw")
              /\ inflight' = Finished(r)
              /\ UNCHANGED teams
         ELSE /\ teams' = [teams EXCEPT ![inflight[r].teamId].members =
                             filtered.members]
              /\ inflight' = VersionIncremented(r, "mirror")
              /\ UNCHANGED resp
  /\ UNCHANGED <<projects, tasks, userTeams, activeTeam>>

\* The record updateMemberRole's find() returned, after the method's
\* assignments: the paths it changed are role and / or permissions.
RoleChanged(r) ==
  LET doc == inflight[r].doc
      old == doc.members[FirstIndex(doc.members, inflight[r].userId)]
      new == TeamUpdateMemberRole(doc, inflight[r].userId, inflight[r].role)
               .members[FirstIndex(doc.members, inflight[r].userId)]
  IN  [index |-> FirstIndex(doc.members, inflight[r].userId),
       role |-> new.role # old.role,
       permissions |-> new.permissions # old.permissions,
       record |-> new]

\* updateMemberRole's save: the changed paths of members.i are set on the
\* stored document, if the version is the one the request loaded.
SaveRole(r) ==
  /\ r \in DOMAIN inflight
  /\ inflight[r].pc = "save"
  /\ inflight[r].op = "updateMemberRole"
  /\ LET c == RoleChanged(r)
     IN  IF ~c.role /\ ~c.permissions
         THEN /\ inflight' = [inflight EXCEPT ![r].pc = "mirror"]
              /\ UNCHANGED <<teams, resp>>
         ELSE IF inflight[r].stale # {}
         THEN /\ resp' = Response("updateMemberRole", inflight[r].user,
                                  inflight[r].userId, "throw")
              /\ inflight' = Finished(r)
              /\ UNCHANGED teams
         ELSE /\ teams' = [teams EXCEPT ![inflight[r].teamId].members[c.index] =
                             [@ EXCEPT !.role = IF c.role THEN c.record.role ELSE @,
                                       !.permissions = IF c.permissions
                                                       THEN c.record.permissions ELSE @]]
              /\ inflight' = [inflight EXCEPT ![r].pc = "mirror"]
              /\ UNCHANGED resp
  /\ UNCHANGED <<projects, tasks, userTeams, activeTeam>>

\* removeMember's User.findByIdAndUpdate ($pull, $unset), and the answer.
MirrorRemoved(r) ==
  /\ r \in DOMAIN inflight
  /\ inflight[r].pc = "mirror"
  /\ inflight[r].op = "removeMember"
  /\ userTeams' = [userTeams EXCEPT ![inflight[r].userId] =
                     PullTeam(@, inflight[r].teamId)]
  /\ activeTeam' = [activeTeam EXCEPT ![inflight[r].userId] = NULL]
  /\ resp' = Response("removeMember", inflight[r].user, inflight[r].userId, "200")
  /\ inflight' = Finished(r)
  /\ UNCHANGED <<teams, projects, tasks>>

\* updateMemberRole's User.findOneAndUpdate ($set teams.$.role), and the
\* answer.
MirrorRole(r) ==
  /\ r \in DOMAIN inflight
  /\ inflight[r].pc = "mirror"
  /\ inflight[r].op = "updateMemberRole"
  /\ userTeams' = [userTeams EXCEPT ![inflight[r].userId] =
                     SetTeamRole(@, inflight[r].teamId, inflight[r].role)]
  /\ resp' = Response("updateMemberRole", inflight[r].user, inflight[r].userId, "200")
  /\ inflight' = Finished(r)
  /\ UNCHANGED <<teams, projects, tasks, activeTeam>>

\* inviteMember's User.findByIdAndUpdate ($push), and the answer.
MirrorAdded(r) ==
  /\ r \in DOMAIN inflight
  /\ inflight[r].op = "inviteMember"
  /\ MirrorMember(r)

\* The stored team: created by the admin, who has since invited nobody or
\* one user, and who sends every request.
InitConcurrentMembers ==
  /\ teams \in {[t \in TeamIds |-> d] : d \in {x \in CreatedTeams :
                                                 x.owner = "u1" /\ OneRecordPerUser(x)}}
  /\ projects = NoDocs
  /\ tasks = NoDocs
  /\ userTeams = MirrorTeams(teams)
  /\ activeTeam = MirrorActive(teams)
  /\ resp = NoResponse
  /\ inflight = NoDocs

NextConcurrentMembers ==
  \/ \E r \in Requests, teamId \in TeamIds, userId \in {"u2", "u3"} :
       BeginInviteMember(r, "u1", teamId, userId, NULL)
  \/ \E r \in Requests, teamId \in TeamIds, userId \in Users :
       BeginRemoveMember(r, "u1", teamId, userId)
  \/ \E r \in Requests : SaveAdded(r)
  \/ \E r \in Requests : SaveRemoved(r)
  \/ \E r \in Requests : MirrorAdded(r)
  \/ \E r \in Requests : MirrorRemoved(r)

SpecConcurrentMembers == InitConcurrentMembers /\ [][NextConcurrentMembers]_vars

(***************************************************************************)
(* SpecConcurrentRoles: updateMemberRole requests of the owner that        *)
(* overlap, on a team of the admin with two invited users.                 *)
(***************************************************************************)
InitConcurrentRoles ==
  /\ teams \in {[t \in TeamIds |-> d] : d \in {x \in TeamDocs :
                     /\ x.owner = "u1"
                     /\ TeamGetMemberRole(x, "u1") = "owner"
                     /\ TeamGetMemberRole(x, "u2") \in {"manager", "member"}
                     /\ TeamGetMemberRole(x, "u3") = "member"}}
  /\ projects = NoDocs
  /\ tasks = NoDocs
  /\ userTeams = MirrorTeams(teams)
  /\ activeTeam = MirrorActive(teams)
  /\ resp = NoResponse
  /\ inflight = NoDocs

NextConcurrentRoles ==
  \/ \E r \in Requests, teamId \in TeamIds, role \in TeamRoles :
       BeginUpdateMemberRole(r, "u1", teamId, "u2", role)
  \/ \E r \in Requests, teamId \in TeamIds, role \in {"manager", "member"} :
       BeginUpdateMemberRole(r, "u1", teamId, "u3", role)
  \/ \E r \in Requests : SaveRole(r)
  \/ \E r \in Requests : MirrorRole(r)

SpecConcurrentRoles == InitConcurrentRoles /\ [][NextConcurrentRoles]_vars

(***************************************************************************)
(* SpecActiveTeam: two teams are created, joined, left and deleted, from   *)
(* an empty database, so that a user's active team can be another team     *)
(* than the one a request is about.  Requests do not overlap.              *)
(***************************************************************************)
TwoTeamIds == {"t1", "t2"}

NextActiveTeam ==
  \E user \in Users, teamId \in TwoTeamIds :
    \/ NewTeamId(teamId) /\ CreateTeam(user, teamId, "dev", FALSE)
    \/ JoinTeam(user, teamId)
    \/ LeaveTeam(user, teamId)
    \/ \E userId \in Users : RemoveMember(user, teamId, userId)
    \/ DeleteTeam(user, teamId)

SpecActiveTeam == InitMembership /\ [][NextActiveTeam]_vars

(***************************************************************************)
(* Properties.                                                             *)
(***************************************************************************)
TaskOps == {"getTask", "updateTask", "deleteTask"}

IsAdmin(u) == u \in Users /\ userRole[u] = "admin"

\* C1: an admin is allowed every guarded operation on every existing team,
\* project and task: the team and project guards pass, and a task read,
\* update or delete by an admin on an existing task is answered 200, whatever
\* the admin's memberships and whether or not the task has a project or the
\* project a team.
C1_AdminAllowedEverywhere ==
  /\ \A u \in Users, t \in DOMAIN teams :
       IsAdmin(u) => /\ requireTeamMember(u, t) = "next"
                     /\ requireTeamManager(u, t) = "next"
  /\ \A u \in Users, p \in DOMAIN projects :
       IsAdmin(u) => /\ requireProjectMember(u, p) = "next"
                     /\ requireProjectManager(u, p) = "next"
  /\ (resp.op \in TaskOps /\ IsAdmin(resp.user) /\ resp.status # "404")
       => resp.status = "200"

\* C2: the user in team.owner is granted team manage in every state, with or
\* without a membership record and whatever records the team holds, also
\* after members were removed or their roles changed.
C2_OwnerManagesTeam ==
  \A t \in DOMAIN teams :
    /\ TeamCanUserManage(teams[t], teams[t].owner)
    /\ requireTeamManager(teams[t].owner, t) = "next"
    /\ (resp.op \in {"updateTeam", "removeMember", "updateMemberRole"}
        /\ resp.user = teams[t].owner) => resp.status \notin {"403", "404"}

\* C2 witness: a non-admin owner with no membership record has just removed a
\* member, and no manager record is left in the team.
C2_Witness ==
  /\ resp.op = "removeMember" /\ resp.status = "200"
  /\ \E t \in DOMAIN teams :
       /\ resp.user = teams[t].owner
       /\ ~IsAdmin(resp.user)
       /\ ~HasRecord(teams[t].members, resp.user)
       /\ ~HasRecord(teams[t].members, resp.target)
       /\ \A i \in DOMAIN teams[t].members : teams[t].members[i].role # "manager"
       /\ requireTeamManager(resp.user, t) = "next"

\* The actor's first record in the project's team has role manager.
IsTeamManagerOf(u, p) ==
  /\ TeamLoaded(projects[p])
  /\ TeamGetMemberRole(teams[projects[p].team], u) = "manager"

\* C3: whoever holds a manager record in the team of a project is granted
\* project manage, with or without a record in project.members.
C3_TeamManagerManagesProject ==
  \A p \in DOMAIN projects :
    /\ \A u \in Users : IsTeamManagerOf(u, p) => requireProjectManager(u, p) = "next"
    /\ (resp.op = "updateProject" /\ IsTeamManagerOf(resp.user, p))
         => resp.status = "200"

\* C3 witness: updateProject answered 200 to a non-admin team manager who is
\* neither the project's owner nor one of its members.
C3_Witness ==
  /\ resp.op = "updateProject" /\ resp.status = "200"
  /\ \E p \in DOMAIN projects :
       /\ IsTeamManagerOf(resp.user, p)
       /\ ~IsAdmin(resp.user)
       /\ projects[p].owner # resp.user
       /\ ~HasRecord(projects[p].members, resp.user)
       /\ teams[projects[p].team].owner # resp.user

\* The actor's first record in project.members is a lead or may edit.
IsProjectEditor(u, p) ==
  /\ HasRecord(projects[p].members, u)
  /\ LET member == projects[p].members[FirstIndex(projects[p].members, u)]
     IN  member.role = "lead" \/ member.permissions.canEditProject

\* A plain team member: non-admin, record with role member in the project's
\* team, owner of neither team nor project, no lead / canEditProject record.
IsPlainTeamMemberOf(u, p) ==
  /\ u \in Users /\ ~IsAdmin(u)
  /\ TeamLoaded(projects[p])
  /\ TeamGetMemberRole(teams[projects[p].team], u) = "member"
  /\ teams[projects[p].team].owner # u
  /\ projects[p].owner # u
  /\ ~IsProjectEditor(u, p)

\* C4: a plain team member is granted project read and denied project manage
\* on every project of the team.
C4_TeamMemberReadsNotManages ==
  \A p \in DOMAIN projects :
    /\ \A u \in Users :
         IsPlainTeamMemberOf(u, p) => /\ requireProjectMember(u, p) = "next"
                                      /\ requireProjectManager(u, p) = "403"
    /\ (resp.op = "getProject" /\ IsPlainTeamMemberOf(resp.user, p))
         => resp.status = "200"
    /\ (resp.op = "updateProject" /\ IsPlainTeamMemberOf(resp.user, p))
         => resp.status = "403"

\* C4 witness: updateProject answered 403 to a plain team member with no
\* record in the project, whom the read guard lets through.
C4_Witness ==
  /\ resp.op = "updateProject" /\ resp.status = "403"
  /\ \E p \in DOMAIN projects :
       /\ IsPlainTeamMemberOf(resp.user, p)
       /\ ~HasRecord(projects[p].members, resp.user)
       /\ requireProjectMember(resp.user, p) = "next"

MayManageProject(u, p) ==
  \/ IsAdmin(u)
  \/ projects[p].owner = u
  \/ IsProjectEditor(u, p)
  \/ /\ TeamLoaded(projects[p])
     /\ requireTeamManager(u, projects[p].team) = "next"

\* C7: project manage is granted exactly to an admin, the project's owner, a
\* member whose record has role lead or canEditProject, and whoever is granted
\* team manage on the project's team; everyone else is denied.
C7_ProjectManageExact ==
  \A p \in DOMAIN projects :
    /\ \A u \in Users :
         requireProjectManager(u, p) = (IF MayManageProject(u, p) THEN "next" ELSE "403")
    /\ resp.op = "updateProject" =>
         resp.status = (IF MayManageProject(resp.user, p) THEN "200" ELSE "403")

\* C7 witness: updateProject answered 403 to a project member without lead or
\* canEditProject who also holds a member record in the project's team.
C7_Witness ==
  /\ resp.op = "updateProject" /\ resp.status = "403"
  /\ \E p \in DOMAIN projects :
       /\ HasRecord(projects[p].members, resp.user)
       /\ TeamLoaded(projects[p])
       /\ TeamGetMemberRole(teams[projects[p].team], resp.user) = "member"

\* The clauses C8 lists for task read.
MayReadTask(u, task) ==
  \/ IsAdmin(u)
  \/ task.assignedTo = u
  \/ task.createdBy = u
  \/ u \in Range(task.watchers)
  \/ /\ ProjectLoaded(task)
     /\ requireProjectMember(u, task.project) = "next"

\* The clauses C10 lists for task update and for task delete.
MayUpdateTask(u, task) ==
  \/ IsAdmin(u)
  \/ task.assignedTo = u
  \/ task.createdBy = u
  \/ /\ ProjectLoaded(task)
     /\ requireProjectManager(u, task.project) = "next"

MayDeleteTask(u, task) ==
  \/ IsAdmin(u)
  \/ task.createdBy = u
  \/ /\ ProjectLoaded(task)
     /\ requireProjectManager(u, task.project) = "next"

\* C8: getTask on an existing task answers 200 exactly to an admin, the
\* assignee, the creator, a watcher, and whoever is granted project read on
\* the task's project.
C8_TaskReadExact ==
  \A k \in DOMAIN tasks :
    resp.op = "getTask" =>
      (resp.status = "200" <=> MayReadTask(resp.user, tasks[k]))

\* C9: on an existing task, with or without a project, with a deleted project
\* or a project without team, no read, update or delete request ends in an
\* exception, and a request by an actor with no granting relationship is
\* answered 403.
C9_DenialIsNeverAnError ==
  [][\A k \in DOMAIN tasks :
       /\ resp'.op \in TaskOps => resp'.status # "throw"
       /\ (resp'.op = "getTask" /\ ~MayReadTask(resp'.user, tasks[k]))
            => resp'.status = "403"
       /\ (resp'.op = "updateTask" /\ ~MayUpdateTask(resp'.user, tasks[k]))
            => resp'.status = "403"
       /\ (resp'.op = "deleteTask" /\ ~MayDeleteTask(resp'.user, tasks[k]))
            => resp'.status = "403"]_vars

\* C10: updateTask on an existing task answers 200 exactly to an admin, the
\* assignee, the creator and whoever is granted project manage on the task's
\* project; deleteTask exactly to an admin, the creator and whoever is
\* granted project manage.
C10_TaskUpdateDeleteExact ==
  [][\A k \in DOMAIN tasks :
       /\ resp'.op = "updateTask" =>
            (resp'.status = "200" <=> MayUpdateTask(resp'.user, tasks[k]))
       /\ resp'.op = "deleteTask" =>
            (resp'.status = "200" <=> MayDeleteTask(resp'.user, tasks[k]))]_vars

\* C11: a joinTeam or inviteMember request that is not refused as not found
\* or not authorized, for a user who already has a record in team.members, is
\* answered 400 (already a member) and changes neither team.members nor any
\* user's teams list; Team.addMember throws for such a user; and no team ever
\* holds two records of one user.
C11_AlreadyMemberRefused ==
  [][/\ \A t \in DOMAIN teams :
          (/\ resp'.op \in {"joinTeam", "inviteMember"}
           /\ resp'.status \notin {"403", "404"}
           /\ HasRecord(teams[t].members, resp'.target))
          => /\ resp'.status = "400"
             /\ teams' = teams
             /\ userTeams' = userTeams
     /\ \A t \in DOMAIN teams' :
          /\ OneRecordPerUser(teams'[t])
          /\ \A u \in Users :
               HasRecord(teams'[t].members, u) => TeamAddMemberThrows(teams'[t], u)]_vars

\* C11 witness: the invitation of a user who already holds a record was
\* answered 400, and the team holds that user's one record.
C11_Witness ==
  /\ resp.op = "inviteMember" /\ resp.status = "400"
  /\ resp.target # resp.user
  /\ \E t \in DOMAIN teams :
       /\ teams[t].owner # resp.target
       /\ HasRecord(teams[t].members, resp.target)
       /\ Cardinality({i \in DOMAIN teams[t].members :
                         teams[t].members[i].user = resp.target}) = 1

\* C12: under any interleaving of overlapping joinTeam and inviteMember
\* requests, team.members holds at most one record per user.
C12_OneRecordPerUserConcurrently ==
  \A t \in DOMAIN teams : OneRecordPerUser(teams[t])

\* C13: removeMember of a user who is not the owner and has no record in
\* team.members, by a caller the guard lets through, is answered 200 and
\* changes neither team.members nor any user's teams list; and after any
\* successful removal the user has no record left, so that removing the user
\* again would write back the same members and the same teams list.
C13_RemoveMemberIdempotent ==
  [][\A t \in DOMAIN teams :
       /\ (/\ resp'.op = "removeMember"
           /\ resp'.status \notin {"403", "404"}
           /\ resp'.target # teams[t].owner
           /\ ~HasRecord(teams[t].members, resp'.target))
          => /\ resp'.status = "200"
             /\ teams' = teams
             /\ userTeams' = userTeams
       /\ (resp'.op = "removeMember" /\ resp'.status = "200")
          => /\ ~HasRecord(teams'[t].members, resp'.target)
             /\ TeamRemoveMember(teams'[t], resp'.target) = teams'[t]
             /\ PullTeam(userTeams'[resp'.target], t) = userTeams'[resp'.target]]_vars

\* C13 witness: the removal of a user without record was answered 200 to a
\* manager who is not an admin, in a team that holds the records of the two others.
C13_Witness ==
  /\ resp.op = "removeMember" /\ resp.status = "200"
  /\ ~IsAdmin(resp.user)
  /\ \E t \in DOMAIN teams :
       /\ ~HasRecord(teams[t].members, resp.target)
       /\ Len(teams[t].members) = 2
       /\ userTeams[resp.target] = <<>>

\* C14: removeMember with userId = team.owner, by a caller the guard lets
\* through (a manager, the owner, an admin), and leaveTeam by the owner are
\* answered 400 and change neither team.members nor any user's teams list; the
\* owner's record and teams-list entry are there in every state.
C14_OwnerCannotBeRemoved ==
  [][\A t \in DOMAIN teams :
       /\ (/\ resp'.op = "removeMember"
           /\ resp'.status \notin {"403", "404"}
           /\ resp'.target = teams[t].owner)
          => /\ resp'.status = "400"
             /\ teams' = teams
             /\ userTeams' = userTeams
       /\ (resp'.op = "leaveTeam" /\ resp'.user = teams[t].owner)
          => /\ resp'.status = "400"
             /\ teams' = teams
             /\ userTeams' = userTeams
       /\ HasRecord(teams'[t].members, teams'[t].owner)
       /\ \E i \in DOMAIN userTeams'[teams'[t].owner] :
            userTeams'[teams'[t].owner][i].team = t]_vars

\* C14 witness: a manager who is neither admin nor owner asked for the owner's
\* removal and was answered 400; the owner's record is still the first one.
C14_Witness ==
  /\ resp.op = "removeMember" /\ resp.status = "400"
  /\ ~IsAdmin(resp.user)
  /\ \E t \in DOMAIN teams :
       /\ resp.target = teams[t].owner
       /\ resp.user # teams[t].owner
       /\ teams[t].members[1].user = teams[t].owner

\* C15: updateMemberRole with userId = team.owner, whatever the requested role
\* and for every caller the guard lets through (a manager, the owner, an
\* admin), is answered 400 and changes nothing; in every state the owner's
\* record has role owner with the owner's permissions, and the owner's
\* teams-list entry has role owner.
C15_OwnerRoleProtected ==
  [][\A t \in DOMAIN teams :
       /\ (/\ resp'.op = "updateMemberRole"
           /\ resp'.status \notin {"403", "404"}
           /\ resp'.target = teams[t].owner)
          => /\ resp'.status = "400"
             /\ teams' = teams
             /\ userTeams' = userTeams
       /\ HasRecord(teams'[t].members, teams'[t].owner)
       /\ teams'[t].members[FirstIndex(teams'[t].members, teams'[t].owner)]
            = TeamMember(teams'[t].owner, "owner")
       /\ \A i \in DOMAIN userTeams'[teams'[t].owner] :
            userTeams'[teams'[t].owner][i].team = t
              => userTeams'[teams'[t].owner][i].role = "owner"]_vars

\* C15 witness: a manager who is neither admin nor owner asked for a change of
\* the owner's role and was answered 400.
C15_Witness ==
  /\ resp.op = "updateMemberRole" /\ resp.status = "400"
  /\ ~IsAdmin(resp.user)
  /\ \E t \in DOMAIN teams :
       /\ resp.target = teams[t].owner
       /\ resp.user # teams[t].owner
       /\ TeamGetMemberRole(teams[t], resp.user) = "manager"
       /\ TeamGetMemberRole(teams[t], resp.target) = "owner"

\* C16: in every state every team membership record carries the permissions
\* of its role: all four true for owner and manager; canViewAllTasks true and
\* the other three false for member.
C16_PermissionsFollowRole ==
  \A t \in DOMAIN teams :
    \A i \in DOMAIN teams[t].members :
      /\ teams[t].members[i].role \in TeamRoles
      /\ teams[t].members[i].permissions = TeamPermissions(teams[t].members[i].role)

\* C17: removeProjectMember and updateProjectMemberRole with userId =
\* project.owner, by a caller the guard lets through, are answered 400 and
\* leave the project as it was, so that the owner's record stays the lead
\* record createProject stored; on a lead who is not the owner the removal is
\* answered 200 and the role change is not refused (200, or the rejection of
\* a role outside the schema's enum).
C17_ProjectOwnerProtected ==
  [][\A p \in DOMAIN projects :
       /\ (/\ resp'.op \in {"removeProjectMember", "updateProjectMemberRole"}
           /\ resp'.status \notin {"403", "404"}
           /\ resp'.target = projects[p].owner)
          => /\ resp'.status = "400"
             /\ projects' = projects
       /\ p \in DOMAIN projects'
       /\ HasRecord(projects'[p].members, projects'[p].owner)
       /\ projects'[p].members[FirstIndex(projects'[p].members, projects'[p].owner)]
            = ProjectMember(projects'[p].owner, "lead", TRUE)
       /\ (/\ resp'.op \in {"removeProjectMember", "updateProjectMemberRole"}
           /\ resp'.status \notin {"403", "404"}
           /\ resp'.target # projects[p].owner
           /\ HasRecord(projects[p].members, resp'.target)
           /\ projects[p].members[FirstIndex(projects[p].members, resp'.target)].role
                = "lead")
          => resp'.status \in (IF resp'.op = "removeProjectMember"
                                THEN {"200"} ELSE {"200", "throw"})]_vars

\* C18: addProjectMember for a user who already has a record in
\* project.members, by a caller the guard lets through, fails with
\* AlreadyMember and leaves the project as it was; project.members never holds
\* two records of one user; a successful addProjectMember appends one record,
\* of the requested user, with the permissions of its role; and for a body
\* without role that record has role developer and the three permissions
\* false.
C18_ProjectMembersUnique ==
  [][\A p \in DOMAIN projects :
       /\ (/\ resp'.op = "addProjectMember"
           /\ resp'.status \notin {"403", "404"}
           /\ HasRecord(projects[p].members, resp'.target))
          => /\ resp'.status = "AlreadyMember"
             /\ projects' = projects
       /\ OneRecordPerUser(projects'[p])
       /\ (resp'.op = "addProjectMember" /\ resp'.status = "200")
          => \E role \in ProjectRoles :
               projects'[p] = ProjectAddMember(projects[p], resp'.target, role)
       /\ \A u \in Users :
            LET added == ProjectAddMember(projects'[p], u, BodyRole(NULL, "developer"))
            IN  added.members[Len(added.members)] =
                  [user |-> u, role |-> "developer",
                   permissions |-> [canEditProject |-> FALSE,
                                    canManageTasks |-> FALSE,
                                    canInviteMembers |-> FALSE]]]_vars

\* C18 witness: a second addProjectMember for a developer of the project was
\* refused with AlreadyMember, and the project holds that user's one record.
C18_Witness ==
  /\ resp.op = "addProjectMember" /\ resp.status = "AlreadyMember"
  /\ \E p \in DOMAIN projects :
       /\ resp.target # projects[p].owner
       /\ Cardinality({i \in DOMAIN projects[p].members :
                         projects[p].members[i].user = resp.target}) = 1
       /\ projects[p].members[FirstIndex(projects[p].members, resp.target)].role
            = "developer"

\* No user is listed twice in the watchers.
NoDuplicateWatcher(task) ==
  \A i, j \in DOMAIN task.watchers : task.watchers[i] = task.watchers[j] => i = j

\* C19: the task createTask stores has its creator among the watchers and,
\* when the body names an assignee, that assignee too; a successful
\* assignTask makes the user the assignee and leaves the watchers as they
\* were if the user was among them, and with the user appended otherwise; no
\* watcher is listed twice.
C19_AssigneeAndCreatorWatch ==
  [][/\ (resp'.op = "createTask" /\ resp'.status = "201")
          => \A k \in DOMAIN tasks' \ DOMAIN tasks :
               /\ tasks'[k].createdBy = resp'.user
               /\ tasks'[k].createdBy \in Range(tasks'[k].watchers)
               /\ resp'.target # NULL =>
                    /\ tasks'[k].assignedTo = resp'.target
                    /\ tasks'[k].assignedTo \in Range(tasks'[k].watchers)
               /\ NoDuplicateWatcher(tasks'[k])
     /\ (resp'.op = "assignTask" /\ resp'.status = "200")
          => \A k \in DOMAIN tasks :
               /\ tasks'[k].assignedTo = resp'.target
               /\ tasks'[k].watchers =
                    (IF resp'.target \in Range(tasks[k].watchers)
                     THEN tasks[k].watchers
                     ELSE Append(tasks[k].watchers, resp'.target))
               /\ NoDuplicateWatcher(tasks'[k])]_vars

\* C20: a guarded team, project or task request that is answered 404 or 403
\* changes no team, project or task, no membership record, no user's teams
\* list and no active team.
C20_DenialWritesNothing ==
  [][resp'.status \in {"403", "404"}
       => UNCHANGED <<teams, projects, tasks, userTeams, activeTeam>>]_vars

\* C20 witness: deleteTeam was answered 403 to a manager, whom the route's
\* guard lets through, and the team, its members' teams lists and its
\* project are all still there.
C20_Witness ==
  /\ resp.op = "deleteTeam" /\ resp.status = "403"
  /\ \E t \in DOMAIN teams :
       /\ requireTeamManager(resp.user, t) = "next"
       /\ \A u \in Users :
            HasRecord(teams[t].members, u) <=> ListsTeam(userTeams[u], t)
       /\ activeTeam[teams[t].owner] = t
       /\ \E p \in DOMAIN projects : projects[p].team = t

\* C21: after a deleteTeam answered 200, every project that referred to the
\* deleted team still exists and has no team reference, and no user's teams
\* list has an entry for the team.
C21_DeleteTeamDetachesProjects ==
  [][(resp'.op = "deleteTeam" /\ resp'.status = "200")
       => \A t \in DOMAIN teams \ DOMAIN teams' :
            /\ \A p \in DOMAIN projects :
                 projects[p].team = t
                   => p \in DOMAIN projects' /\ projects'[p].team = NULL
            /\ \A u \in Users : ~ListsTeam(userTeams'[u], t)]_vars

\* C21 as the code has it: after a deleteTeam answered 200, no project that
\* referred to the deleted team is stored any more, every other project is
\* stored as it was, and no user's teams list has an entry for the team.
C21_DeleteTeamDeletesProjects ==
  [][(resp'.op = "deleteTeam" /\ resp'.status = "200")
       => \A t \in DOMAIN teams \ DOMAIN teams' :
            /\ \A p \in DOMAIN projects :
                 IF projects[p].team = t
                 THEN p \notin DOMAIN projects'
                 ELSE p \in DOMAIN projects' /\ projects'[p] = projects[p]
            /\ \A u \in Users : ~ListsTeam(userTeams'[u], t)]_vars

\* deleteTeam has just deleted a team, the project attached to it (a task
\* still refers to that project) and the entries of the users' teams lists.
C21_Witness ==
  /\ resp.op = "deleteTeam" /\ resp.status = "200"
  /\ DOMAIN teams = {}
  /\ \E k \in DOMAIN tasks :
       tasks[k].project # NULL /\ tasks[k].project \notin DOMAIN projects
  /\ \A u \in Users : userTeams[u] = <<>>

\* C22: in every reachable state each task that has a project reference
\* refers to a stored project: deleteProject and deleteTeam delete the tasks
\* of every project they delete.
C22_TasksReferToStoredProjects ==
  \A k \in DOMAIN tasks :
    tasks[k].project # NULL => tasks[k].project \in DOMAIN projects

\* C23: whenever no request is in flight, each user's teams list mirrors the
\* members of the stored teams: the list of u has an entry for team T with
\* role r exactly when T is stored and T.members has a record of u with role r.
C23_TeamsListMirrorsMembers ==
  DOMAIN inflight = {}
    => \A u \in Users :
         /\ \A i \in DOMAIN userTeams[u] :
              /\ userTeams[u][i].team \in DOMAIN teams
              /\ \E j \in DOMAIN teams[userTeams[u][i].team].members :
                   /\ teams[userTeams[u][i].team].members[j].user = u
                   /\ teams[userTeams[u][i].team].members[j].role = userTeams[u][i].role
         /\ \A t \in DOMAIN teams :
              \A j \in DOMAIN teams[t].members :
                teams[t].members[j].user = u
                  => \E i \in DOMAIN userTeams[u] :
                       /\ userTeams[u][i].team = t
                       /\ userTeams[u][i].role = teams[t].members[j].role

\* C24: once no updateMemberRole request is in flight any more, every record
\* of team.members carries the permission bundle of the role it stores,
\* however the requests overlapped and whether they changed one member or
\* different members.
C24_ConcurrentRolesKeepBundles ==
  DOMAIN inflight = {}
    => \A t \in DOMAIN teams :
         \A i \in DOMAIN teams[t].members :
           teams[t].members[i].permissions = TeamPermissions(teams[t].members[i].role)

\* C25: createTeam is answered 201 only for a caller who has the
\* canCreateTeams permission (admin or team_manager); for any other caller it
\* is rejected and creates no team, no membership record and no teams-list
\* entry.
C25_CreateTeamNeedsPermission ==
  [][resp'.op = "createTeam"
       => IF hasPermission(resp'.user, "canCreateTeams")
          THEN TRUE
          ELSE /\ resp'.status # "201"
               /\ UNCHANGED <<teams, userTeams>>]_vars

\* C26: a request assignTask, unassignTask, addWatcher or removeWatcher of a
\* caller who is not an admin and who may not read the task (not its
\* assignee, creator or watcher, and without read access to its project)
\* changes neither the task's assignee nor its watchers, so that the caller's
\* own requests never make the task readable to the caller.
C26_DeniedReaderCannotChangeTask ==
  [][\A k \in DOMAIN tasks :
       (/\ resp'.op \in {"assignTask", "unassignTask", "addWatcher", "removeWatcher"}
        /\ ~MayReadTask(resp'.user, tasks[k]))
         => /\ k \in DOMAIN tasks'
            /\ tasks'[k].assignedTo = tasks[k].assignedTo
            /\ tasks'[k].watchers = tasks[k].watchers
            /\ ~MayReadTask(resp'.user, tasks'[k])]_vars

\* C27: in every state reached through createTeam, joinTeam, leaveTeam,
\* inviteMember, removeMember and updateMemberRole, the members of a team hold
\* exactly one record of the team's owner, and its role is owner.
C27_OwnerHasOneOwnerRecord ==
  \A t \in DOMAIN teams :
    /\ Cardinality({i \in DOMAIN teams[t].members :
                      teams[t].members[i].user = teams[t].owner}) = 1
    /\ TeamGetMemberRole(teams[t], teams[t].owner) = "owner"

\* The owner's own leaveTeam was refused on a team that has other members.
C27_Witness ==
  /\ resp.op = "leaveTeam" /\ resp.status = "400"
  /\ \E t \in DOMAIN teams :
       /\ teams[t].owner = resp.user
       /\ Len(teams[t].members) >= 3
       /\ C27_OwnerHasOneOwnerRecord

\* C28: in every reachable state a record of team.members with role owner is
\* a record of the user in team.owner: inviteMember and updateMemberRole,
\* whatever role they are called with, leave no owner record of another user.
C28_OnlyOwnerHasOwnerRole ==
  \A t \in DOMAIN teams :
    \A i \in DOMAIN teams[t].members :
      teams[t].members[i].role = "owner"
        => teams[t].members[i].user = teams[t].owner

\* C29: a membership mutation that overlaps mutations of other users of the
\* same team takes effect when its save is over, and undoes nothing: after an
\* inviteMember's save the invited user has a record, after a removeMember's
\* save the removed user has none (provided that no save since the request
\* loaded the team added or removed a record of that same user), and the
\* records of all other users are as they were stored.
C29_NoLostMembershipUpdate ==
  [][\A r \in DOMAIN inflight :
       (/\ inflight[r].pc = "save"
        /\ inflight[r].op \in {"inviteMember", "removeMember"}
        /\ (r \notin DOMAIN inflight' \/ inflight'[r].pc # "save")
        /\ (inflight[r].op = "removeMember"
              => inflight[r].userId \notin inflight[r].stale))
         => /\ inflight[r].teamId \in DOMAIN teams'
            /\ HasRecord(teams'[inflight[r].teamId].members, inflight[r].userId)
                 <=> inflight[r].op = "inviteMember"
            /\ FilterOut(teams'[inflight[r].teamId].members, inflight[r].userId)
                 = FilterOut(teams[inflight[r].teamId].members, inflight[r].userId)]_vars

\* C30: removeMember, leaveTeam and deleteTeam change a user's activeTeam
\* only when it is the team of the request: the team just deleted, or the
\* team the user has just been removed from.  An activeTeam that is another
\* team stays as it is.
C30_OtherActiveTeamKept ==
  [][\A u \in Users :
       (/\ resp'.op \in {"removeMember", "leaveTeam", "deleteTeam"}
        /\ activeTeam'[u] # activeTeam[u])
         => /\ activeTeam[u] \in DOMAIN teams
            /\ \/ activeTeam[u] \notin DOMAIN teams'
               \/ /\ HasRecord(teams[activeTeam[u]].members, u)
                  /\ ~HasRecord(teams'[activeTeam[u]].members, u)]_vars

====
